---------------------------- MODULE Spec2Model ----------------------------
(***************************************************************************)
(* A model of gomb, the DDL statement builder (package gomb).              *)
(*                                                                         *)
(* Go strings are TLA+ strings; text is assembled with \o exactly as the   *)
(* code assembles it with strings.Builder, fmt.Sprintf and "+".  A Go      *)
(* error is its message, nil is the value nil; a []error is a sequence of  *)
(* messages.  *Column pointers are the names in ColIds (NilCol is the nil  *)
(* pointer) and cols is the heap they point into, so a Column handed to a  *)
(* Table or an AlterTable stays shared with the caller as in Go.           *)
(***************************************************************************)
EXTENDS Integers, Sequences, FiniteSets, TLC

VARIABLES
    cols,       \* heap: [ColIds -> Column]
    inserted,   \* per column: the order in which the caller inserted the keys
                \* of the map it handed to SetAttributes
    setters,    \* number of setter calls made so far
    colRet,     \* per column: what Column.ToSQL returned since its last change
    valRet,     \* per column: what Column.Validate returned since its last change
    typeRet,    \* per column: what Column.ToDataType returned since its last change
    table,      \* the Table under construction
    tableRet,   \* what Table.ToSQL returned since the table's last change
    alter,      \* the AlterTable under construction
    alterRet,   \* what AlterTable.ToSQL returned since its last change
    panic,      \* "" while running, else the call that dereferenced nil
    index,          \* the Index under construction
    indexRet,       \* what Index.ToSQL returned since its last change
    dropIndex,      \* the DropIndex under construction
    dropIndexRet,   \* what DropIndex.ToSQL returned since its last change
    renameIndex,    \* the RenameIndex under construction
    renameIndexRet, \* what RenameIndex.ToSQL returned since its last change
    reindex,            \* the ReindexOperation under construction
    reindexRet,         \* what ReindexOperation.ToSQL returned since its last change
    setTablespace,      \* the SetIndexTablespace under construction
    setTablespaceRet,   \* what SetIndexTablespace.ToSQL returned since its last change
    dropTable,          \* the DropTable under construction
    dropTableRet        \* what DropTable.ToSQL returned since its last change

colVars   == <<cols, inserted, setters, colRet, valRet, typeRet>>
tableVars == <<table, tableRet>>
alterVars == <<alter, alterRet>>
indexVars == <<index, indexRet, dropIndex, dropIndexRet,
               renameIndex, renameIndexRet>>
stmtVars  == <<reindex, reindexRet, setTablespace, setTablespaceRet,
               dropTable, dropTableRet>>
vars      == <<cols, inserted, setters, colRet, valRet, typeRet,
               table, tableRet, alter, alterRet, panic,
               index, indexRet, dropIndex, dropIndexRet,
               renameIndex, renameIndexRet,
               reindex, reindexRet, setTablespace, setTablespaceRet,
               dropTable, dropTableRet>>

---------------------------------------------------------------------------
(* Bounds of the exploration.                                              *)

MaxSetters == 3     \* setter calls on the column under construction
MaxColumns == 2     \* Table.AddColumn calls
MaxOps     == 2     \* AlterTable operations registered
MaxLen     == 2     \* largest length / precision / scale drawn

ColIds == {"c1", "c2", "c3"}
NilCol == "nil-column"
nil    == "<nil>"       \* the nil error
NoRet  == [called |-> FALSE]   \* no call since the last change
NilUpdate == [isNil |-> TRUE]  \* the nil *ColumnUpdate

---------------------------------------------------------------------------
(* Shared vocabulary.                                                      *)

AddColumnOp       == "AddColumnOp"
DropColumnOp      == "DropColumnOp"
RenameColumnOp    == "RenameColumnOp"
AlterColumnTypeOp == "AlterColumnTypeOp"

SerialType   == "serial"
StringType   == "string"
IntegerType  == "integer"
DecimalType  == "decimal"
BooleanType  == "boolean"
DateType     == "date"
DateTimeType == "datetime"

validDataTypes ==
    {SerialType, StringType, IntegerType, DecimalType, BooleanType,
     DateType, DateTimeType}

\* An empty map[string]any (a nil map ranges the same way).
NoAttributes == [k \in {} |-> ""]

---------------------------------------------------------------------------
(* Column: constructor.                                                    *)

NewColumn(name) ==
    [ Name |-> name, DataType |-> "", Length |-> 0, Precision |-> 0,
      Scale |-> 0, PrimaryKey |-> FALSE, AutoNumber |-> FALSE,
      AutoNumberStart |-> 0, AutoNumberPrefix |-> "", NotNull |-> FALSE,
      Unique |-> FALSE, Default |-> "", Check |-> "", References |-> "",
      Generated |-> "", Collation |-> "", Comment |-> "", Storage |-> "",
      Compression |-> "", IdentityStart |-> 0, IdentityInc |-> 0,
      Attributes |-> NoAttributes, UpdateOptions |-> NilUpdate ]

\* &ColumnUpdate{}
NewColumnUpdate == [Name |-> "", DataType |-> ""]

---------------------------------------------------------------------------
(* Text helpers.                                                           *)

Char(s, i) == SubSeq(s, i, i)

\* strings.HasPrefix
HasPrefix(s, prefix) ==
    Len(s) >= Len(prefix) /\ SubSeq(s, 1, Len(prefix)) = prefix

\* strings.Contains(s, ch) for a one-character ch
Contains(s, ch) == \E i \in 1..Len(s) : Char(s, i) = ch

RECURSIVE Concat(_)
\* the text a strings.Builder holds after the writes ws
Concat(ws) == IF ws = <<>> THEN "" ELSE Head(ws) \o Concat(Tail(ws))

RECURSIVE Join(_, _)
\* strings.Join
Join(ss, sep) ==
    IF ss = <<>> THEN ""
    ELSE IF Len(ss) = 1 THEN ss[1]
    ELSE ss[1] \o sep \o Join(Tail(ss), sep)

Digits == {"0", "1", "2", "3", "4", "5", "6", "7", "8", "9"}

RECURSIVE SkipDigits(_, _)
\* first position at or after i that holds no decimal digit
SkipDigits(s, i) ==
    IF i <= Len(s) /\ Char(s, i) \in Digits THEN SkipDigits(s, i + 1) ELSE i

LowerTab ==
    [ch \in {"I", "N", "F", "T", "Y", "A"} |->
        CASE ch = "I" -> "i" [] ch = "N" -> "n" [] ch = "F" -> "f"
          [] ch = "T" -> "t" [] ch = "Y" -> "y" [] ch = "A" -> "a"]

Lower(ch) == IF ch \in DOMAIN LowerTab THEN LowerTab[ch] ELSE ch

\* s equals the lower-case word w, ignoring the case of s
EqualFold(s, w) ==
    /\ Len(s) = Len(w)
    /\ \A i \in 1..Len(s) : Lower(Char(s, i)) = Char(w, i)

\* strconv.ParseFloat(s, 64) returns a nil error.  Modelled: the decimal
\* form [sign] digits [. digits] [e|E [sign] digits] with at least one
\* mantissa digit, and the special forms [sign]inf, [sign]infinity and nan
\* in any letter case.  Hexadecimal floats, digit separators and literals
\* out of the float64 range do not occur in the vocabulary drawn below.
ParseFloatOK(s) ==
    LET n       == Len(s)
        signed  == n >= 1 /\ Char(s, 1) \in {"+", "-"}
        i0      == IF signed THEN 2 ELSE 1
        body    == SubSeq(s, i0, n)
        special == \/ EqualFold(body, "inf")
                   \/ EqualFold(body, "infinity")
                   \/ (~signed /\ EqualFold(s, "nan"))
        i1      == SkipDigits(s, i0)
        sawdot  == i1 <= n /\ Char(s, i1) = "."
        i2      == IF sawdot THEN SkipDigits(s, i1 + 1) ELSE i1
        sawdigits == (i1 > i0) \/ (sawdot /\ i2 > i1 + 1)
        hasexp  == i2 <= n /\ Char(s, i2) \in {"e", "E"}
        e0      == i2 + 1
        e1      == IF e0 <= n /\ Char(s, e0) \in {"+", "-"} THEN e0 + 1 ELSE e0
        e2      == SkipDigits(s, e1)
        decimal == /\ sawdigits
                   /\ IF hasexp THEN e2 > e1 /\ e2 = n + 1 ELSE i2 = n + 1
    IN  n > 0 /\ (special \/ decimal)

---------------------------------------------------------------------------
(* Column: validation and serialization.                                   *)

\* Validate with the identity rule checked before the default rule
ValidateIdentityFirst(col) ==
    IF col.DataType \notin validDataTypes
        THEN "invalid data type: " \o col.DataType
    ELSE IF col.AutoNumber /\ col.AutoNumberStart < 0
        THEN "auto-number start must be greater or equal than 0"
    ELSE IF col.IdentityStart > 0 /\ col.IdentityInc <= 0
        THEN "identity increment must be greater than 0"
    ELSE IF col.NotNull /\ col.Default # ""
        THEN "column cannot be both NOT NULL and have a DEFAULT value"
    ELSE IF col.Check # "" /\ ~Contains(col.Check, "(")
        THEN "check constraint must have an expression in parentheses"
    ELSE IF col.References # "" /\ ~Contains(col.References, "(")
        THEN "foreign key references must be in the format 'table(column)'"
    ELSE nil

\* Validate without the rule on NOT NULL and DEFAULT
ValidateWithoutDefaultRule(col) ==
    IF col.DataType \notin validDataTypes
        THEN "invalid data type: " \o col.DataType
    ELSE IF col.AutoNumber /\ col.AutoNumberStart < 0
        THEN "auto-number start must be greater or equal than 0"
    ELSE IF col.IdentityStart > 0 /\ col.IdentityInc <= 0
        THEN "identity increment must be greater than 0"
    ELSE IF col.Check # "" /\ ~Contains(col.Check, "(")
        THEN "check constraint must have an expression in parentheses"
    ELSE IF col.References # "" /\ ~Contains(col.References, "(")
        THEN "foreign key references must be in the format 'table(column)'"
    ELSE nil

Validate(col) ==
    IF col.DataType \notin validDataTypes
        THEN "invalid data type: " \o col.DataType
    ELSE IF col.AutoNumber /\ col.AutoNumberStart < 0
        THEN "auto-number start must be greater or equal than 0"
    ELSE IF col.NotNull /\ col.Default # ""
        THEN "column cannot be both NOT NULL and have a DEFAULT value"
    ELSE IF col.IdentityStart > 0 /\ col.IdentityInc <= 0
        THEN "identity increment must be greater than 0"
    ELSE IF col.Check # "" /\ ~Contains(col.Check, "(")
        THEN "check constraint must have an expression in parentheses"
    ELSE IF col.References # "" /\ ~Contains(col.References, "(")
        THEN "foreign key references must be in the format 'table(column)'"
    ELSE nil

ToDataTypeString(col, data) ==
    CASE data = SerialType   -> "SERIAL"
      [] data = StringType   ->
            IF col.Length > 0
                THEN "VARCHAR(" \o ToString(col.Length) \o ")"
                ELSE "VARCHAR"
      [] data = IntegerType  -> "INTEGER"
      [] data = DecimalType  ->
            IF col.Precision > 0 /\ col.Scale > 0
                THEN "DECIMAL(" \o ToString(col.Precision) \o ","
                         \o ToString(col.Scale) \o ")"
            ELSE IF col.Precision > 0 /\ col.Scale = 0
                THEN "DECIMAL(" \o ToString(col.Precision) \o ")"
            ELSE "DECIMAL"
      [] data = BooleanType  -> "BOOLEAN"
      [] data = DateType     -> "DATE"
      [] data = DateTimeType -> "TIMESTAMP"
      [] OTHER               -> "VARCHAR"

ToDataType(col) == ToDataTypeString(col, col.DataType)

\* Dereferences col.UpdateOptions: the caller guards against nil.
ToNewDataType(col) == ToDataTypeString(col, col.UpdateOptions.DataType)

UnquotedKeywords ==
    {"CURRENT_TIMESTAMP", "CURRENT_DATE", "CURRENT_TIME", "LOCAL_TIME",
     "LOCAL_TIMESTAMP", "TRUE", "FALSE", "NULL"}

\* needsQuotes without the exemption of the literals true and false
NeedsQuotesForBooleans(default) ==
    /\ default \notin UnquotedKeywords
    /\ ~ParseFloatOK(default)

\* needsQuotes, as Column.ToSQL computes it for a non-empty default
NeedsQuotes(default) ==
    /\ default \notin UnquotedKeywords
    /\ ~ParseFloatOK(default)
    /\ ~(default = "true" \/ default = "false")

DefaultClause(c) ==
    IF NeedsQuotes(c.Default)
        THEN " DEFAULT '" \o c.Default \o "'"
        ELSE " DEFAULT " \o c.Default

\* The orders in which `range` may visit a map: Go leaves the order
\* unspecified, and it may differ from one loop to the next.
RangeOrders(m) ==
    LET K == DOMAIN m
    IN  {o \in [1..Cardinality(K) -> K] :
            \A i, j \in 1..Cardinality(K) : i # j => o[i] # o[j]}

\* The writes Column.ToSQL makes to its strings.Builder once validation has
\* passed, in the order of the code: name and type,
NameAndTypeWrites(c) ==
       <<c.Name, " ">>
    \o (IF c.DataType # "" THEN <<ToDataTypeString(c, c.DataType)>> ELSE <<>>)

\* the constraints with UNIQUE written before NOT NULL
ConstraintWritesUniqueFirst(c) ==
       (IF c.PrimaryKey THEN <<" PRIMARY KEY">> ELSE <<>>)
    \o (IF c.AutoNumber
            THEN    <<" AUTOINCREMENT">>
                 \o (IF c.AutoNumberStart > 0
                        THEN <<" START WITH " \o ToString(c.AutoNumberStart)>>
                        ELSE <<>>)
                 \o (IF c.AutoNumberPrefix # ""
                        THEN <<" PREFIX '" \o c.AutoNumberPrefix \o "'">>
                        ELSE <<>>)
            ELSE <<>>)
    \o (IF c.Unique THEN <<" UNIQUE">> ELSE <<>>)
    \o (IF c.NotNull THEN <<" NOT NULL">> ELSE <<>>)

\* the constraints,
ConstraintWrites(c) ==
       (IF c.PrimaryKey THEN <<" PRIMARY KEY">> ELSE <<>>)
    \o (IF c.AutoNumber
            THEN    <<" AUTOINCREMENT">>
                 \o (IF c.AutoNumberStart > 0
                        THEN <<" START WITH " \o ToString(c.AutoNumberStart)>>
                        ELSE <<>>)
                 \o (IF c.AutoNumberPrefix # ""
                        THEN <<" PREFIX '" \o c.AutoNumberPrefix \o "'">>
                        ELSE <<>>)
            ELSE <<>>)
    \o (IF c.NotNull THEN <<" NOT NULL">> ELSE <<>>)
    \o (IF c.Unique THEN <<" UNIQUE">> ELSE <<>>)

\* the clauses that carry text,
ClauseWrites(c) ==
       (IF c.Default # "" THEN <<DefaultClause(c)>> ELSE <<>>)
    \o (IF c.Check # "" THEN <<" CHECK " \o c.Check>> ELSE <<>>)
    \o (IF c.References # "" THEN <<" REFERENCES " \o c.References>> ELSE <<>>)
    \o (IF c.Generated # ""
            THEN <<" GENERATED ALWAYS AS (" \o c.Generated \o ")">> ELSE <<>>)
    \o (IF c.Collation # "" THEN <<" COLLATE " \o c.Collation>> ELSE <<>>)
    \o (IF c.Comment # "" THEN <<" COMMENT '" \o c.Comment \o "'">> ELSE <<>>)
    \o (IF c.Storage # "" THEN <<" STORAGE " \o c.Storage>> ELSE <<>>)
    \o (IF c.Compression # ""
            THEN <<" COMPRESSION " \o c.Compression>> ELSE <<>>)
    \o (IF c.IdentityStart > 0 /\ c.IdentityInc > 0
            THEN <<" IDENTITY (" \o ToString(c.IdentityStart) \o ","
                       \o ToString(c.IdentityInc) \o ")">>
            ELSE <<>>)

\* and the attributes, in the order the range loop visits the keys.
AttributeWrites(c, order) ==
    [i \in 1..Len(order) |-> " " \o order[i] \o " " \o c.Attributes[order[i]]]

ColumnWrites(c, order) ==
       NameAndTypeWrites(c) \o ConstraintWrites(c) \o ClauseWrites(c)
    \o AttributeWrites(c, order)

\* Column.ToSQL: (sql, err), with the builder writes that produced sql
ColumnToSQL(c, order) ==
    LET err == Validate(c)
    IN  IF err # nil
            THEN [sql |-> "", err |-> err, writes |-> <<>>]
            ELSE [sql |-> Concat(ColumnWrites(c, order)), err |-> nil,
                  writes |-> ColumnWrites(c, order)]

---------------------------------------------------------------------------
(* Column setters, as steps on the column p points to.  Every setter       *)
(* assigns its field(s) and returns the receiver; what was returned for    *)
(* the column before the change is forgotten.                              *)

Update(p, c) ==
    /\ panic = ""
    /\ setters < MaxSetters
    /\ setters' = setters + 1
    /\ cols' = [cols EXCEPT ![p] = c]
    /\ colRet' = [colRet EXCEPT ![p] = NoRet]
    /\ valRet' = [valRet EXCEPT ![p] = NoRet]
    /\ typeRet' = [typeRet EXCEPT ![p] = NoRet]
    /\ tableRet' = NoRet
    /\ alterRet' = NoRet
    /\ UNCHANGED <<table, alter, panic>>
    /\ UNCHANGED indexVars
    /\ UNCHANGED stmtVars

SetNewName(p, newName) ==
    LET u == IF cols[p].UpdateOptions = NilUpdate
                THEN NewColumnUpdate ELSE cols[p].UpdateOptions
    IN  /\ Update(p, [cols[p] EXCEPT !.UpdateOptions = [u EXCEPT !.Name = newName]])
        /\ UNCHANGED inserted

SetNewDataType(p, newDataType) ==
    LET u == IF cols[p].UpdateOptions = NilUpdate
                THEN NewColumnUpdate ELSE cols[p].UpdateOptions
    IN  /\ Update(p, [cols[p] EXCEPT
                        !.UpdateOptions = [u EXCEPT !.DataType = newDataType]])
        /\ UNCHANGED inserted

SetName(p, name) ==
    Update(p, [cols[p] EXCEPT !.Name = name]) /\ UNCHANGED inserted

SetPrimaryKey(p) ==
    Update(p, [cols[p] EXCEPT !.PrimaryKey = TRUE]) /\ UNCHANGED inserted

SetUnique(p) ==
    Update(p, [cols[p] EXCEPT !.Unique = TRUE]) /\ UNCHANGED inserted

SetNotNull(p) ==
    Update(p, [cols[p] EXCEPT !.NotNull = TRUE]) /\ UNCHANGED inserted

SetDataType(p, dataType) ==
    Update(p, [cols[p] EXCEPT !.DataType = dataType]) /\ UNCHANGED inserted

\* The argument of SetDefault is an `any`: v.go names its dynamic type.
\* A DefaultValue constant is a named string type, so it takes the default
\* branch of the type switch and is formatted with %v.
FormatDefault(v) ==
    CASE v.go = "string" -> v.s
      [] v.go = "int"    -> ToString(v.n)
      [] v.go = "bool"   -> IF v.b THEN "true" ELSE "false"
      [] v.go = "nil"    -> "NULL"
      [] OTHER           -> v.s

SetDefault(p, v) ==
    Update(p, [cols[p] EXCEPT !.Default = FormatDefault(v)])
    /\ UNCHANGED inserted

SetAutoNumber(p) ==
    Update(p, [cols[p] EXCEPT !.AutoNumber = TRUE]) /\ UNCHANGED inserted

SetAutoNumberWithPrefix(p, startNumber, prefix) ==
    /\ Update(p, [cols[p] EXCEPT !.AutoNumber = TRUE,
                                 !.AutoNumberStart = startNumber,
                                 !.AutoNumberPrefix = prefix])
    /\ UNCHANGED inserted

SetReferences(p, t, column) ==
    /\ Update(p, [cols[p] EXCEPT !.References = t \o "(" \o column \o ")"])
    /\ UNCHANGED inserted

SetReferencesOnDeleteCascade(p, t, column) ==
    /\ Update(p, [cols[p] EXCEPT
                    !.References = t \o "(" \o column \o ") ON DELETE CASCADE"])
    /\ UNCHANGED inserted

SetCheck(p, check) ==
    Update(p, [cols[p] EXCEPT !.Check = check]) /\ UNCHANGED inserted

SetGenerated(p, check) ==
    Update(p, [cols[p] EXCEPT !.Generated = check]) /\ UNCHANGED inserted

SetLength(p, length) ==
    Update(p, [cols[p] EXCEPT !.Length = length]) /\ UNCHANGED inserted

SetPrecision(p, precision) ==
    Update(p, [cols[p] EXCEPT !.Precision = precision]) /\ UNCHANGED inserted

SetScale(p, scale) ==
    Update(p, [cols[p] EXCEPT !.Scale = scale]) /\ UNCHANGED inserted

SetCollation(p, collation) ==
    Update(p, [cols[p] EXCEPT !.Collation = collation]) /\ UNCHANGED inserted

SetComment(p, comment) ==
    Update(p, [cols[p] EXCEPT !.Comment = comment]) /\ UNCHANGED inserted

SetStorage(p, storage) ==
    Update(p, [cols[p] EXCEPT !.Storage = storage]) /\ UNCHANGED inserted

SetCompression(p, compression) ==
    Update(p, [cols[p] EXCEPT !.Compression = compression])
    /\ UNCHANGED inserted

SetIdentityStart(p, identityStart) ==
    Update(p, [cols[p] EXCEPT !.IdentityStart = identityStart])
    /\ UNCHANGED inserted

SetIdentityIncrement(p, identityInc) ==
    Update(p, [cols[p] EXCEPT !.IdentityInc = identityInc])
    /\ UNCHANGED inserted

\* The map the caller built by inserting the pairs [key, value] of `pairs`
\* one after the other: a later pair replaces an earlier one of the same key.
MapOf(pairs) ==
    [k \in {pairs[i].key : i \in 1..Len(pairs)} |->
        LET last == CHOOSE i \in 1..Len(pairs) :
                        /\ pairs[i].key = k
                        /\ \A j \in (i + 1)..Len(pairs) : pairs[j].key # k
        IN  pairs[last].value]

SetAttributes(p, pairs) ==
    /\ Update(p, [cols[p] EXCEPT !.Attributes = MapOf(pairs)])
    /\ inserted' = [inserted EXCEPT
                        ![p] = [i \in 1..Len(pairs) |-> pairs[i].key]]

---------------------------------------------------------------------------
(* Column calls that return a value.                                       *)

CallColumnValidate(p) ==
    /\ panic = ""
    /\ valRet' = [valRet EXCEPT ![p] = [err |-> Validate(cols[p])]]
    /\ UNCHANGED <<cols, inserted, setters, colRet, typeRet,
                   table, tableRet, alter, alterRet, panic>>
    /\ UNCHANGED indexVars
    /\ UNCHANGED stmtVars

CallColumnToSQL(p) ==
    /\ panic = ""
    /\ \E order \in RangeOrders(cols[p].Attributes) :
          colRet' = [colRet EXCEPT ![p] = ColumnToSQL(cols[p], order)]
    /\ UNCHANGED <<cols, inserted, setters, valRet, typeRet,
                   table, tableRet, alter, alterRet, panic>>
    /\ UNCHANGED indexVars
    /\ UNCHANGED stmtVars

CallToDataType(p) ==
    /\ panic = ""
    /\ typeRet' = [typeRet EXCEPT ![p] = [token |-> ToDataType(cols[p])]]
    /\ UNCHANGED <<cols, inserted, setters, colRet, valRet,
                   table, tableRet, alter, alterRet, panic>>
    /\ UNCHANGED indexVars
    /\ UNCHANGED stmtVars

---------------------------------------------------------------------------
(* Table.                                                                  *)

NewTable(name) ==
    [Name |-> name, Label |-> "", Columns |-> <<>>,
     Attributes |-> NoAttributes, Comment |-> ""]

\* Appends the pointer as it is: a nil column is appended too.
TableAddColumn(p) ==
    /\ panic = ""
    /\ Len(table.Columns) < MaxColumns
    /\ table' = [table EXCEPT !.Columns = Append(@, p)]
    /\ tableRet' = NoRet
    /\ UNCHANGED <<cols, inserted, setters, colRet, valRet, typeRet,
                   alter, alterRet, panic>>
    /\ UNCHANGED indexVars
    /\ UNCHANGED stmtVars

\* table.Comment = comment (the field is exported and has no setter)
TableSetComment(comment) ==
    /\ panic = ""
    /\ table' = [table EXCEPT !.Comment = comment]
    /\ tableRet' = NoRet
    /\ UNCHANGED <<cols, inserted, setters, colRet, valRet, typeRet,
                   alter, alterRet, panic>>
    /\ UNCHANGED indexVars
    /\ UNCHANGED stmtVars

\* One visiting order of the attributes for each col.ToSQL() call of a loop
\* over the column pointers ps.
LoopOrders(heap, ps) ==
    LET all == UNION {RangeOrders(heap[ps[i]].Attributes) : i \in 1..Len(ps)}
    IN  {f \in [1..Len(ps) -> all] :
            \A i \in 1..Len(ps) : f[i] \in RangeOrders(heap[ps[i]].Attributes)}

\* Table.ToSQL with the columns visited whatever the table name
TableToSQLPanicsOnUnnamed(t) ==
    \E i \in 1..Len(t.Columns) : t.Columns[i] = NilCol

\* Table.ToSQL reaches col.ToSQL() on a nil column: Validate reads
\* col.DataType through the nil pointer.
TableToSQLPanics(t) ==
    /\ t.Name # ""
    /\ \E i \in 1..Len(t.Columns) : t.Columns[i] = NilCol

\* the columns the loop of Table.ToSQL visits: none when the name is empty
TableLoop(t) == IF t.Name = "" THEN <<>> ELSE t.Columns

\* Table.ToSQL without the final check of the collected errors: the
\* statement of the columns that serialized is returned
TableToSQLSkippingFailed(t, heap, orders) ==
    IF t.Name = ""
        THEN [sql |-> "", errs |-> <<"table name cannot be empty">>]
    ELSE
    LET rets       == [i \in 1..Len(t.Columns) |->
                          ColumnToSQL(heap[t.Columns[i]], orders[i])]
        failed     == SelectSeq(rets, LAMBDA r : r.err # nil)
        passed     == SelectSeq(rets, LAMBDA r : r.err = nil)
        errors     == [i \in 1..Len(failed) |-> failed[i].err]
        columnDefs == [i \in 1..Len(passed) |-> passed[i].sql]
    IN  IF Len(columnDefs) = 0
            THEN [sql |-> "",
                  errs |-> Append(errors,
                      "no valid columns defined for table " \o t.Name)]
        ELSE [sql |-> "CREATE TABLE " \o t.Name \o " ("
                         \o Join(columnDefs, ", ") \o ")",
              errs |-> <<>>]

\* Table.ToSQL without the error for a statement with no column
TableToSQLWithoutColumnCheck(t, heap, orders) ==
    IF t.Name = ""
        THEN [sql |-> "", errs |-> <<"table name cannot be empty">>]
    ELSE
    LET rets       == [i \in 1..Len(t.Columns) |->
                          ColumnToSQL(heap[t.Columns[i]], orders[i])]
        failed     == SelectSeq(rets, LAMBDA r : r.err # nil)
        passed     == SelectSeq(rets, LAMBDA r : r.err = nil)
        errors     == [i \in 1..Len(failed) |-> failed[i].err]
        columnDefs == [i \in 1..Len(passed) |-> passed[i].sql]
    IN  IF Len(errors) > 0
            THEN [sql |-> "", errs |-> errors]
        ELSE [sql |-> "CREATE TABLE " \o t.Name \o " ("
                         \o Join(columnDefs, ", ") \o ")",
              errs |-> <<>>]

\* Table.ToSQL as it would be if it returned the statement of the columns
\* that serialized together with the errors of those that did not
TableToSQLWithTextAndErrors(t, heap, orders) ==
    IF t.Name = ""
        THEN [sql |-> "", errs |-> <<"table name cannot be empty">>]
    ELSE
    LET rets       == [i \in 1..Len(t.Columns) |->
                          ColumnToSQL(heap[t.Columns[i]], orders[i])]
        failed     == SelectSeq(rets, LAMBDA r : r.err # nil)
        passed     == SelectSeq(rets, LAMBDA r : r.err = nil)
        errors     == [i \in 1..Len(failed) |-> failed[i].err]
        columnDefs == [i \in 1..Len(passed) |-> passed[i].sql]
    IN  IF Len(columnDefs) = 0
            THEN [sql |-> "",
                  errs |-> Append(errors,
                      "no valid columns defined for table " \o t.Name)]
        ELSE [sql |-> "CREATE TABLE " \o t.Name \o " ("
                         \o Join(columnDefs, ", ") \o ")",
              errs |-> errors]

\* Table.ToSQL, for a table without nil column: (sql, errors)
TableToSQL(t, heap, orders) ==
    IF t.Name = ""
        THEN [sql |-> "", errs |-> <<"table name cannot be empty">>]
    ELSE
    LET rets       == [i \in 1..Len(t.Columns) |->
                          ColumnToSQL(heap[t.Columns[i]], orders[i])]
        failed     == SelectSeq(rets, LAMBDA r : r.err # nil)
        passed     == SelectSeq(rets, LAMBDA r : r.err = nil)
        errors     == [i \in 1..Len(failed) |-> failed[i].err]
        columnDefs == [i \in 1..Len(passed) |-> passed[i].sql]
        def        ==    <<"CREATE TABLE " \o t.Name,
                           "(" \o Join(columnDefs, ", ") \o ")">>
                      \o (IF t.Comment # ""
                            THEN <<"COMMENT ON TABLE " \o t.Name \o " IS '"
                                       \o t.Comment \o "'">>
                            ELSE <<>>)
    IN  IF Len(columnDefs) = 0
            THEN [sql |-> "",
                  errs |-> Append(errors,
                      "no valid columns defined for table " \o t.Name)]
        ELSE IF Len(errors) > 0
            THEN [sql |-> "", errs |-> errors]
        ELSE [sql |-> Join(def, " "), errs |-> <<>>]

CallTableToSQL ==
    /\ panic = ""
    /\ IF TableToSQLPanics(table)
          THEN /\ panic' = "Table.ToSQL"
               /\ UNCHANGED tableRet
          ELSE /\ \E orders \in LoopOrders(cols, TableLoop(table)) :
                      tableRet' = TableToSQL(table, cols, orders)
               /\ UNCHANGED panic
    /\ UNCHANGED <<cols, inserted, setters, colRet, valRet, typeRet,
                   table, alter, alterRet>>
    /\ UNCHANGED indexVars
    /\ UNCHANGED stmtVars

---------------------------------------------------------------------------
(* AlterTable.                                                             *)

NewAlterTable(name) == [TableName |-> name, Operations |-> <<>>, Comment |-> ""]

\* append(t.Operations, ColumnOperation{kind, p})
Register(kind, p) ==
    /\ Len(alter.Operations) < MaxOps
    /\ alter' = [alter EXCEPT
                    !.Operations = Append(@, [Operation |-> kind, Column |-> p])]
    /\ alterRet' = NoRet
    /\ UNCHANGED panic

\* A call that changes nothing
Ignore == UNCHANGED <<alter, alterRet, panic>>

AlterTableAddColumn(p) ==
    /\ panic = ""
    /\ IF p # NilCol THEN Register(AddColumnOp, p) ELSE Ignore
    /\ UNCHANGED <<cols, inserted, setters, colRet, valRet, typeRet,
                   table, tableRet>>
    /\ UNCHANGED indexVars
    /\ UNCHANGED stmtVars

AlterTableDropColumn(p) ==
    /\ panic = ""
    /\ IF p # NilCol THEN Register(DropColumnOp, p) ELSE Ignore
    /\ UNCHANGED <<cols, inserted, setters, colRet, valRet, typeRet,
                   table, tableRet>>
    /\ UNCHANGED indexVars
    /\ UNCHANGED stmtVars

\* AlterTable.AlterColumn as it would be if the new data type were looked at
\* before the new name
AlterTableAlterColumnPreferringType(p) ==
    /\ panic = ""
    /\ IF p = NilCol THEN Ignore
       ELSE IF cols[p].UpdateOptions = NilUpdate
          THEN panic' = "AlterTable.AlterColumn" /\ UNCHANGED <<alter, alterRet>>
       ELSE IF cols[p].UpdateOptions.DataType # ""
          THEN Register(AlterColumnTypeOp, p)
       ELSE IF cols[p].UpdateOptions.Name # ""
          THEN Register(RenameColumnOp, p)
       ELSE Ignore
    /\ UNCHANGED <<cols, inserted, setters, colRet, valRet, typeRet,
                   table, tableRet>>
    /\ UNCHANGED indexVars
    /\ UNCHANGED stmtVars

\* column.UpdateOptions is read without a nil check.
AlterTableAlterColumn(p) ==
    /\ panic = ""
    /\ IF p = NilCol THEN Ignore
       ELSE IF cols[p].UpdateOptions = NilUpdate
          THEN panic' = "AlterTable.AlterColumn" /\ UNCHANGED <<alter, alterRet>>
       ELSE IF cols[p].UpdateOptions.Name # ""
          THEN Register(RenameColumnOp, p)
       ELSE IF cols[p].UpdateOptions.DataType # ""
          THEN Register(AlterColumnTypeOp, p)
       ELSE Ignore
    /\ UNCHANGED <<cols, inserted, setters, colRet, valRet, typeRet,
                   table, tableRet>>
    /\ UNCHANGED indexVars
    /\ UNCHANGED stmtVars

\* alter.Comment = comment (the field is exported and has no setter)
AlterTableSetComment(comment) ==
    /\ panic = ""
    /\ alter' = [alter EXCEPT !.Comment = comment]
    /\ alterRet' = NoRet
    /\ UNCHANGED <<cols, inserted, setters, colRet, valRet, typeRet,
                   table, tableRet, panic>>
    /\ UNCHANGED indexVars
    /\ UNCHANGED stmtVars

\* AlterTable.Validate returning at the first defect
AlterTableValidateFirstOnly(t) ==
    IF t.TableName = "" THEN <<"table name cannot be empty">>
    ELSE IF Len(t.Operations) = 0
        THEN <<"alter table must have at least one operation">>
    ELSE <<>>

AlterTableValidate(t) ==
       (IF t.TableName = "" THEN <<"table name cannot be empty">> ELSE <<>>)
    \o (IF Len(t.Operations) = 0
            THEN <<"alter table must have at least one operation">>
            ELSE <<>>)

\* The loop of AlterTable.ToSQL with the column name in the type change
OperationDefNamingColumn(op, heap, order) ==
    LET c == heap[op.Column]
    IN  CASE op.Operation = AddColumnOp ->
                LET r == ColumnToSQL(c, order)
                IN  IF r.err # nil
                        THEN [def |-> "", err |-> r.err]
                        ELSE [def |-> "ADD COLUMN " \o r.sql, err |-> nil]
          [] op.Operation = DropColumnOp ->
                [def |-> "DROP COLUMN " \o c.Name, err |-> nil]
          [] op.Operation = RenameColumnOp ->
                [def |-> "RENAME COLUMN " \o c.Name \o " TO "
                            \o c.UpdateOptions.Name,
                 err |-> nil]
          [] op.Operation = AlterColumnTypeOp ->
                [def |-> "ALTER COLUMN " \o c.Name \o " TYPE "
                            \o ToNewDataType(c),
                 err |-> nil]

\* What one turn of the loop of AlterTable.ToSQL yields for operation op:
\* a definition, or the error of the ADD column.
OperationDef(op, heap, order) ==
    LET c == heap[op.Column]
    IN  CASE op.Operation = AddColumnOp ->
                LET r == ColumnToSQL(c, order)
                IN  IF r.err # nil
                        THEN [def |-> "", err |-> r.err]
                        ELSE [def |-> "ADD COLUMN " \o r.sql, err |-> nil]
          [] op.Operation = DropColumnOp ->
                [def |-> "DROP COLUMN " \o c.Name, err |-> nil]
          [] op.Operation = RenameColumnOp ->
                [def |-> "RENAME COLUMN " \o c.Name \o " TO "
                            \o c.UpdateOptions.Name,
                 err |-> nil]
          [] op.Operation = AlterColumnTypeOp ->
                [def |-> "ALTER COLUMN " \o ToDataType(c) \o " TYPE "
                            \o ToNewDataType(c),
                 err |-> nil]

\* AlterTable.ToSQL with the ADD COLUMN definitions moved to the front
AlterTableToSQLAddsFirst(t, heap, orders) ==
    LET invalid == AlterTableValidate(t)
        rets    == [i \in 1..Len(t.Operations) |->
                       OperationDef(t.Operations[i], heap, orders[i])]
        failed  == SelectSeq(rets, LAMBDA r : r.err # nil)
        passed  == SelectSeq(rets, LAMBDA r : r.err = nil)
        errors  == invalid \o [i \in 1..Len(failed) |-> failed[i].err]
        sorted  ==    SelectSeq(passed, LAMBDA r : HasPrefix(r.def, "ADD"))
                   \o SelectSeq(passed, LAMBDA r : ~HasPrefix(r.def, "ADD"))
        operationDefs == [i \in 1..Len(sorted) |-> sorted[i].def]
        sql     == "ALTER TABLE " \o t.TableName \o " "
                      \o Join(operationDefs, ", ")
    IN  IF Len(invalid) > 0
            THEN [sql |-> "", errs |-> invalid]
        ELSE IF Len(operationDefs) = 0
            THEN [sql |-> "",
                  errs |-> Append(errors,
                      "no valid operations defined for table " \o t.TableName)]
        ELSE IF t.Comment # ""
            THEN [sql |-> sql \o " COMMENT ON TABLE " \o t.TableName \o " IS '"
                            \o t.Comment \o "'",
                  errs |-> <<>>]
        ELSE [sql |-> sql, errs |-> <<>>]

\* AlterTable.ToSQL without the error for an empty definition list
AlterTableToSQLWithoutOperationCheck(t, heap, orders) ==
    LET invalid == AlterTableValidate(t)
        rets    == [i \in 1..Len(t.Operations) |->
                       OperationDef(t.Operations[i], heap, orders[i])]
        passed  == SelectSeq(rets, LAMBDA r : r.err = nil)
        operationDefs == [i \in 1..Len(passed) |-> passed[i].def]
        sql     == "ALTER TABLE " \o t.TableName \o " "
                      \o Join(operationDefs, ", ")
    IN  IF Len(invalid) > 0
            THEN [sql |-> "", errs |-> invalid]
        ELSE IF t.Comment # ""
            THEN [sql |-> sql \o " COMMENT ON TABLE " \o t.TableName \o " IS '"
                            \o t.Comment \o "'",
                  errs |-> <<>>]
        ELSE [sql |-> sql, errs |-> <<>>]

\* AlterTable.ToSQL: (sql, errors).  The errors appended by the loop are
\* returned only when no operation produced a definition.
AlterTableToSQL(t, heap, orders) ==
    LET invalid == AlterTableValidate(t)
        rets    == [i \in 1..Len(t.Operations) |->
                       OperationDef(t.Operations[i], heap, orders[i])]
        failed  == SelectSeq(rets, LAMBDA r : r.err # nil)
        passed  == SelectSeq(rets, LAMBDA r : r.err = nil)
        errors  == invalid \o [i \in 1..Len(failed) |-> failed[i].err]
        operationDefs == [i \in 1..Len(passed) |-> passed[i].def]
        sql     == "ALTER TABLE " \o t.TableName \o " "
                      \o Join(operationDefs, ", ")
    IN  IF Len(invalid) > 0
            THEN [sql |-> "", errs |-> invalid]
        ELSE IF Len(operationDefs) = 0
            THEN [sql |-> "",
                  errs |-> Append(errors,
                      "no valid operations defined for table " \o t.TableName)]
        ELSE IF t.Comment # ""
            THEN [sql |-> sql \o " COMMENT ON TABLE " \o t.TableName \o " IS '"
                            \o t.Comment \o "'",
                  errs |-> <<>>]
        ELSE [sql |-> sql, errs |-> <<>>]

\* the column pointers of the operations, in order
OperationColumns(t) == [i \in 1..Len(t.Operations) |-> t.Operations[i].Column]

CallAlterTableToSQL ==
    /\ panic = ""
    /\ \E orders \in LoopOrders(cols, OperationColumns(alter)) :
          alterRet' = AlterTableToSQL(alter, cols, orders)
    /\ UNCHANGED <<cols, inserted, setters, colRet, valRet, typeRet,
                   table, tableRet, alter, panic>>
    /\ UNCHANGED indexVars
    /\ UNCHANGED stmtVars

---------------------------------------------------------------------------
(* Index, DropIndex, RenameIndex.                                          *)

\* everything that is not an index statement
otherVars == <<cols, inserted, setters, colRet, valRet, typeRet,
               table, tableRet, alter, alterRet, panic>>

\* NewIndex stores "btree" in the field using; method stays empty.
NewIndex(name) ==
    [name |-> name, table |-> "", columns |-> <<>>, unique |-> FALSE,
     concurrently |-> FALSE, using |-> "btree", where |-> "", schema |-> "",
     includeColumns |-> <<>>, method |-> "", tablespace |-> "",
     withOptions |-> <<>>]

\* a setter of Index assigns fields of *idx and returns idx
IndexUpdate(idx) ==
    /\ panic = ""
    /\ index' = idx
    /\ indexRet' = NoRet
    /\ UNCHANGED <<otherVars, dropIndex, dropIndexRet,
                   renameIndex, renameIndexRet>>
    /\ UNCHANGED stmtVars

IndexOnTable(t) == IndexUpdate([index EXCEPT !.table = t])

IndexAddColumn(column) ==
    /\ Len(index.columns) < MaxLen
    /\ IndexUpdate([index EXCEPT !.columns = Append(@, column)])

IndexSetUnique == IndexUpdate([index EXCEPT !.unique = TRUE])

IndexSetConcurrently == IndexUpdate([index EXCEPT !.concurrently = TRUE])

IndexSetMethod(method) == IndexUpdate([index EXCEPT !.method = method])

IndexSetWhere(condition) == IndexUpdate([index EXCEPT !.where = condition])

IndexSetSchema(schema) == IndexUpdate([index EXCEPT !.schema = schema])

IndexAddIncludeColumn(column) ==
    /\ Len(index.includeColumns) < MaxLen
    /\ IndexUpdate([index EXCEPT !.includeColumns = Append(@, column)])

IndexSetTablespace(tablespace) ==
    IndexUpdate([index EXCEPT !.tablespace = tablespace])

IndexAddWithOption(option) ==
    /\ Len(index.withOptions) < MaxLen
    /\ IndexUpdate([index EXCEPT !.withOptions = Append(@, option)])

\* return idx.SetWhere(condition)
IndexPartialIndex(condition) == IndexSetWhere(condition)

IndexExpressionIndex(expression) ==
    /\ Len(index.columns) < MaxLen
    /\ IndexUpdate([index EXCEPT !.columns = Append(@, expression)])

IndexMultiColumnIndex(columns) ==
    /\ Len(index.columns) + Len(columns) <= MaxLen
    /\ IndexUpdate([index EXCEPT !.columns = @ \o columns])

\* Index.ToSQL with the WHERE clause written before the INCLUDE clause
IndexWritesWhereFirst(idx) ==
       <<"CREATE ">>
    \o (IF idx.unique THEN <<"UNIQUE ">> ELSE <<>>)
    \o <<"INDEX ">>
    \o (IF idx.concurrently THEN <<"CONCURRENTLY ">> ELSE <<>>)
    \o <<idx.name, " ON ">>
    \o (IF idx.schema # "" THEN <<idx.schema, ".">> ELSE <<>>)
    \o <<idx.table>>
    \o (IF idx.method # "" THEN <<" USING ", idx.method>> ELSE <<>>)
    \o <<" (", Join(idx.columns, ", "), ")">>
    \o (IF idx.where # "" THEN <<" WHERE ", idx.where>> ELSE <<>>)
    \o (IF Len(idx.includeColumns) > 0
            THEN <<" INCLUDE (", Join(idx.includeColumns, ", "), ")">>
            ELSE <<>>)
    \o (IF Len(idx.withOptions) > 0
            THEN <<" WITH (", Join(idx.withOptions, ", "), ")">>
            ELSE <<>>)
    \o (IF idx.tablespace # "" THEN <<" TABLESPACE ", idx.tablespace>> ELSE <<>>)

\* Index.ToSQL falling back on the access method the constructor stored
IndexWritesDefaultMethod(idx) ==
       <<"CREATE ">>
    \o (IF idx.unique THEN <<"UNIQUE ">> ELSE <<>>)
    \o <<"INDEX ">>
    \o (IF idx.concurrently THEN <<"CONCURRENTLY ">> ELSE <<>>)
    \o <<idx.name, " ON ">>
    \o (IF idx.schema # "" THEN <<idx.schema, ".">> ELSE <<>>)
    \o <<idx.table>>
    \o (IF idx.method # "" THEN <<" USING ", idx.method>>
                           ELSE <<" USING ", idx.using>>)
    \o <<" (", Join(idx.columns, ", "), ")">>
    \o (IF Len(idx.includeColumns) > 0
            THEN <<" INCLUDE (", Join(idx.includeColumns, ", "), ")">>
            ELSE <<>>)
    \o (IF idx.where # "" THEN <<" WHERE ", idx.where>> ELSE <<>>)
    \o (IF Len(idx.withOptions) > 0
            THEN <<" WITH (", Join(idx.withOptions, ", "), ")">>
            ELSE <<>>)
    \o (IF idx.tablespace # "" THEN <<" TABLESPACE ", idx.tablespace>> ELSE <<>>)

\* what Index.ToSQL writes to its builder once the required fields passed
IndexWrites(idx) ==
       <<"CREATE ">>
    \o (IF idx.unique THEN <<"UNIQUE ">> ELSE <<>>)
    \o <<"INDEX ">>
    \o (IF idx.concurrently THEN <<"CONCURRENTLY ">> ELSE <<>>)
    \o <<idx.name, " ON ">>
    \o (IF idx.schema # "" THEN <<idx.schema, ".">> ELSE <<>>)
    \o <<idx.table>>
    \o (IF idx.method # "" THEN <<" USING ", idx.method>> ELSE <<>>)
    \o <<" (", Join(idx.columns, ", "), ")">>
    \o (IF Len(idx.includeColumns) > 0
            THEN <<" INCLUDE (", Join(idx.includeColumns, ", "), ")">>
            ELSE <<>>)
    \o (IF idx.where # "" THEN <<" WHERE ", idx.where>> ELSE <<>>)
    \o (IF Len(idx.withOptions) > 0
            THEN <<" WITH (", Join(idx.withOptions, ", "), ")">>
            ELSE <<>>)
    \o (IF idx.tablespace # "" THEN <<" TABLESPACE ", idx.tablespace>> ELSE <<>>)

\* Index.ToSQL with the columns checked before the table
IndexToSQLColumnsFirst(idx) ==
    IF idx.name = ""
        THEN [sql |-> "", err |-> "index name is required"]
    ELSE IF Len(idx.columns) = 0
        THEN [sql |-> "",
              err |-> "at least one column is required for an index"]
    ELSE IF idx.table = ""
        THEN [sql |-> "", err |-> "table name is required"]
    ELSE [sql |-> Concat(IndexWrites(idx)), err |-> nil]

\* Index.ToSQL: (sql, err)
IndexToSQL(idx) ==
    IF idx.name = ""
        THEN [sql |-> "", err |-> "index name is required"]
    ELSE IF idx.table = ""
        THEN [sql |-> "", err |-> "table name is required"]
    ELSE IF Len(idx.columns) = 0
        THEN [sql |-> "",
              err |-> "at least one column is required for an index"]
    ELSE [sql |-> Concat(IndexWrites(idx)), err |-> nil]

CallIndexToSQL ==
    /\ panic = ""
    /\ indexRet' = IndexToSQL(index)
    /\ UNCHANGED <<otherVars, index, dropIndex, dropIndexRet,
                   renameIndex, renameIndexRet>>
    /\ UNCHANGED stmtVars

NewDropIndex(name) ==
    [name |-> name, ifExists |-> FALSE, concurrently |-> FALSE,
     cascade |-> FALSE, restrict |-> FALSE, schema |-> ""]

\* a setter of DropIndex assigns fields of *di and returns di
DropIndexUpdate(di) ==
    /\ panic = ""
    /\ dropIndex' = di
    /\ dropIndexRet' = NoRet
    /\ UNCHANGED <<otherVars, index, indexRet, renameIndex, renameIndexRet>>
    /\ UNCHANGED stmtVars

DropIndexSetIfExists == DropIndexUpdate([dropIndex EXCEPT !.ifExists = TRUE])

DropIndexSetConcurrently ==
    DropIndexUpdate([dropIndex EXCEPT !.concurrently = TRUE])

\* SetCascade leaving the restrict flag as it is
DropIndexSetCascadeKeepingRestrict ==
    DropIndexUpdate([dropIndex EXCEPT !.cascade = TRUE])

DropIndexSetCascade ==
    DropIndexUpdate([dropIndex EXCEPT !.cascade = TRUE, !.restrict = FALSE])

DropIndexSetRestrict ==
    DropIndexUpdate([dropIndex EXCEPT !.restrict = TRUE, !.cascade = FALSE])

DropIndexSetSchema(schema) ==
    DropIndexUpdate([dropIndex EXCEPT !.schema = schema])

\* DropIndex.ToSQL with IF EXISTS written before CONCURRENTLY
DropIndexToSQLIfExistsFirst(di) ==
    IF di.name = ""
        THEN [sql |-> "", err |-> "index name is required"]
    ELSE [sql |-> Concat(
                 <<"DROP INDEX ">>
              \o (IF di.ifExists THEN <<"IF EXISTS ">> ELSE <<>>)
              \o (IF di.concurrently THEN <<"CONCURRENTLY ">> ELSE <<>>)
              \o (IF di.schema # "" THEN <<di.schema, ".">> ELSE <<>>)
              \o <<di.name>>
              \o (IF di.cascade THEN <<" CASCADE">>
                  ELSE IF di.restrict THEN <<" RESTRICT">>
                  ELSE <<>>)),
          err |-> nil]

\* DropIndex.ToSQL: (sql, err)
DropIndexToSQL(di) ==
    IF di.name = ""
        THEN [sql |-> "", err |-> "index name is required"]
    ELSE [sql |-> Concat(
                 <<"DROP INDEX ">>
              \o (IF di.concurrently THEN <<"CONCURRENTLY ">> ELSE <<>>)
              \o (IF di.ifExists THEN <<"IF EXISTS ">> ELSE <<>>)
              \o (IF di.schema # "" THEN <<di.schema, ".">> ELSE <<>>)
              \o <<di.name>>
              \o (IF di.cascade THEN <<" CASCADE">>
                  ELSE IF di.restrict THEN <<" RESTRICT">>
                  ELSE <<>>)),
          err |-> nil]

CallDropIndexToSQL ==
    /\ panic = ""
    /\ dropIndexRet' = DropIndexToSQL(dropIndex)
    /\ UNCHANGED <<otherVars, index, indexRet, dropIndex,
                   renameIndex, renameIndexRet>>
    /\ UNCHANGED stmtVars

NewRenameIndex(oldName, newName) ==
    [oldName |-> oldName, newName |-> newName, schema |-> ""]

RenameIndexSetSchema(schema) ==
    /\ panic = ""
    /\ renameIndex' = [renameIndex EXCEPT !.schema = schema]
    /\ renameIndexRet' = NoRet
    /\ UNCHANGED <<otherVars, index, indexRet, dropIndex, dropIndexRet>>
    /\ UNCHANGED stmtVars

\* RenameIndex.ToSQL: (sql, err)
RenameIndexToSQL(ri) ==
    IF ri.oldName = "" \/ ri.newName = ""
        THEN [sql |-> "",
              err |-> "both old and new index names are required"]
    ELSE [sql |-> Concat(
                 <<"ALTER INDEX ">>
              \o (IF ri.schema # "" THEN <<ri.schema, ".">> ELSE <<>>)
              \o <<ri.oldName, " RENAME TO ", ri.newName>>),
          err |-> nil]

CallRenameIndexToSQL ==
    /\ panic = ""
    /\ renameIndexRet' = RenameIndexToSQL(renameIndex)
    /\ UNCHANGED <<otherVars, index, indexRet, dropIndex, dropIndexRet,
                   renameIndex>>
    /\ UNCHANGED stmtVars

---------------------------------------------------------------------------
(* ReindexOperation, SetIndexTablespace and DropTable.                     *)

UpperTab ==
    [ch \in {"a", "b", "c", "d", "e", "f", "g", "h", "i", "j", "k", "l", "m",
             "n", "o", "p", "q", "r", "s", "t", "u", "v", "w", "x", "y", "z"} |->
        CASE ch = "a" -> "A" [] ch = "b" -> "B" [] ch = "c" -> "C"
          [] ch = "d" -> "D" [] ch = "e" -> "E" [] ch = "f" -> "F"
          [] ch = "g" -> "G" [] ch = "h" -> "H" [] ch = "i" -> "I"
          [] ch = "j" -> "J" [] ch = "k" -> "K" [] ch = "l" -> "L"
          [] ch = "m" -> "M" [] ch = "n" -> "N" [] ch = "o" -> "O"
          [] ch = "p" -> "P" [] ch = "q" -> "Q" [] ch = "r" -> "R"
          [] ch = "s" -> "S" [] ch = "t" -> "T" [] ch = "u" -> "U"
          [] ch = "v" -> "V" [] ch = "w" -> "W" [] ch = "x" -> "X"
          [] ch = "y" -> "Y" [] ch = "z" -> "Z"]

Upper(ch) == IF ch \in DOMAIN UpperTab THEN UpperTab[ch] ELSE ch

\* strings.ToUpper, on ASCII text
RECURSIVE ToUpper(_)
ToUpper(s) ==
    IF s = "" THEN "" ELSE Upper(Char(s, 1)) \o ToUpper(SubSeq(s, 2, Len(s)))

NewReindex(target, name) ==
    [target |-> ToUpper(target), name |-> name, concurrently |-> FALSE]

ReindexSetConcurrently ==
    /\ ~reindex.concurrently
    /\ reindex' = [reindex EXCEPT !.concurrently = TRUE]
    /\ reindexRet' = NoRet
    /\ UNCHANGED <<otherVars, indexVars, setTablespace, setTablespaceRet,
                   dropTable, dropTableRet>>

\* ReindexOperation.ToSQL as it would be if every target needed a name
ReindexToSQLNamingEveryTarget(ro) ==
    IF ro.target = ""
    THEN [sql |-> "", err |-> "reindex target is required"]
    ELSE IF ro.name = ""
    THEN [sql |-> "",
          err |-> "name is required for REINDEX " \o ro.target]
    ELSE [sql |-> Concat(<<"REINDEX ">>
                         \o (IF ro.concurrently THEN <<"CONCURRENTLY ">> ELSE <<>>)
                         \o <<ro.target, " ", ro.name>>),
          err |-> nil]

\* ReindexOperation.ToSQL: (sql, err)
ReindexToSQL(ro) ==
    IF ro.target = ""
    THEN [sql |-> "", err |-> "reindex target is required"]
    ELSE IF ro.name = "" /\ ro.target # "SYSTEM" /\ ro.target # "DATABASE"
    THEN [sql |-> "",
          err |-> "name is required for REINDEX " \o ro.target]
    ELSE [sql |-> Concat(<<"REINDEX ">>
                         \o (IF ro.concurrently THEN <<"CONCURRENTLY ">> ELSE <<>>)
                         \o <<ro.target>>
                         \o (IF ro.name # "" THEN <<" ", ro.name>> ELSE <<>>)),
          err |-> nil]

CallReindexToSQL ==
    /\ reindexRet = NoRet
    /\ reindexRet' = ReindexToSQL(reindex)
    /\ UNCHANGED <<otherVars, indexVars, reindex, setTablespace,
                   setTablespaceRet, dropTable, dropTableRet>>

NewSetIndexTablespace(indexName, tablespace) ==
    [indexName |-> indexName, tablespace |-> tablespace,
     nowait |-> FALSE, schema |-> ""]

SetIndexTablespaceUpdate(sit) ==
    /\ sit # setTablespace
    /\ setTablespace' = sit
    /\ setTablespaceRet' = NoRet
    /\ UNCHANGED <<otherVars, indexVars, reindex, reindexRet,
                   dropTable, dropTableRet>>

SetIndexTablespaceSetNowait ==
    SetIndexTablespaceUpdate([setTablespace EXCEPT !.nowait = TRUE])

SetIndexTablespaceSetSchema(schema) ==
    SetIndexTablespaceUpdate([setTablespace EXCEPT !.schema = schema])

\* SetIndexTablespace.ToSQL: (sql, err)
SetIndexTablespaceToSQL(sit) ==
    IF sit.indexName = ""
    THEN [sql |-> "", err |-> "index name is required"]
    ELSE IF sit.tablespace = ""
    THEN [sql |-> "", err |-> "tablespace name is required"]
    ELSE [sql |-> Concat(<<"ALTER INDEX ">>
                         \o (IF sit.schema # "" THEN <<sit.schema, ".">> ELSE <<>>)
                         \o <<sit.indexName, " SET TABLESPACE ", sit.tablespace>>
                         \o (IF sit.nowait THEN <<" NOWAIT">> ELSE <<>>)),
          err |-> nil]

CallSetIndexTablespaceToSQL ==
    /\ setTablespaceRet = NoRet
    /\ setTablespaceRet' = SetIndexTablespaceToSQL(setTablespace)
    /\ UNCHANGED <<otherVars, indexVars, reindex, reindexRet, setTablespace,
                   dropTable, dropTableRet>>

NewDropTable(name) == [Name |-> name, Cascade |-> FALSE]

\* DropTable.SetCascade as it would be if it could only enable the option
DropTableSetCascadeEnablingOnly(cascade) ==
    /\ dropTable' = [dropTable EXCEPT !.Cascade = @ \/ cascade]
    /\ dropTableRet' = NoRet
    /\ UNCHANGED <<otherVars, indexVars, reindex, reindexRet,
                   setTablespace, setTablespaceRet>>

DropTableSetCascade(cascade) ==
    /\ dropTable' = [dropTable EXCEPT !.Cascade = cascade]
    /\ dropTableRet' = NoRet
    /\ UNCHANGED <<otherVars, indexVars, reindex, reindexRet,
                   setTablespace, setTablespaceRet>>

\* DropTable.ToSQL: (sql, err)
DropTableToSQL(t) ==
    IF t.Name = ""
    THEN [sql |-> "", err |-> "table name cannot be empty"]
    ELSE [sql |-> "DROP TABLE IF EXISTS " \o t.Name
                  \o (IF t.Cascade THEN " CASCADE" ELSE ""),
          err |-> nil]

CallDropTableToSQL ==
    /\ dropTableRet = NoRet
    /\ dropTableRet' = DropTableToSQL(dropTable)
    /\ UNCHANGED <<otherVars, indexVars, reindex, reindexRet,
                   setTablespace, setTablespaceRet, dropTable>>

\* no other statement is under construction
StatementsIdle ==
    /\ reindex = NewReindex("", "")
    /\ reindexRet = NoRet
    /\ setTablespace = NewSetIndexTablespace("", "")
    /\ setTablespaceRet = NoRet
    /\ dropTable = NewDropTable("")
    /\ dropTableRet = NoRet

\* no index statement is under construction
IndexesIdle ==
    /\ index = NewIndex("")
    /\ indexRet = NoRet
    /\ dropIndex = NewDropIndex("")
    /\ dropIndexRet = NoRet
    /\ renameIndex = NewRenameIndex("", "")
    /\ renameIndexRet = NoRet

---------------------------------------------------------------------------
(* Arguments the calls are made with.                                      *)

\* the name each column is constructed with
ColumnName(p) ==
    CASE p = "c1" -> "id" [] p = "c2" -> "name" [] p = "c3" -> "price"

SomeDataTypes  == {SerialType, StringType, DecimalType, "json"}
SomeDefaults   == {[go |-> "string", s |-> "x"], [go |-> "int", n |-> 0]}
SomeStarts     == {-1, 0, MaxLen}
SomePrefixes   == {"", "P"}
SomeChecks     == {"(x > 0)", "x > 0"}
SomeReferences == {"users(id)", "users"}
SomeIdentities == {0, 1}
SomePairs ==
    { <<[key |-> "a", value |-> "1"]>>,
      <<[key |-> "a", value |-> "1"], [key |-> "b", value |-> "2"]>>,
      <<[key |-> "b", value |-> "2"], [key |-> "a", value |-> "1"]>> }

\* Default literals: the keywords of the quoting rule, near misses of
\* them, number forms and near misses of those, and plain text.
SomeLiterals ==
    {"CURRENT_TIMESTAMP", "CURRENT_DATE", "CURRENT_TIME", "LOCAL_TIME",
     "LOCAL_TIMESTAMP", "TRUE", "FALSE", "NULL", "true", "false",
     "LOCALTIME", "LOCALTIMESTAMP", "null", "True", "now()",
     "0", "42", "-7", "+3", "1.5", ".5", "5.", "1e3", "2E-2", "NaN", "-Inf",
     "infinity", ".", "-", "1e", "e3", "1.2.3", "12a", " 1", "+nan", "infin",
     "x", "it's", "active"}

\* The values handed to SetDefault, with their dynamic Go types.
SomeDefaultArgs ==
         {[go |-> "string", s |-> l] : l \in SomeLiterals}
    \cup {[go |-> "int", n |-> n] : n \in {0, -5, 10}}
    \cup {[go |-> "bool", b |-> b] : b \in BOOLEAN}
    \cup {[go |-> "nil"]}
    \cup {[go |-> "DefaultValue", s |-> l] :
            l \in {"NULL", "TRUE", "FALSE", "CURRENT_TIMESTAMP",
                   "CURRENT_DATE", "CURRENT_TIME", "LOCALTIME",
                   "LOCALTIMESTAMP"}}

\* values handed to the setters of the index statements
SomeIndexColumns   == {"a"}
SomeExpressions    == {"lower(a)"}
SomeColumnLists    == {<<"lower(a)", "a">>}
SomeIncludeColumns == {"x", "y"}
SomeWithOptions    == {"fillfactor=70", "fastupdate=off"}
SomeMethods        == {"", "hash"}
SomeSchemas        == {"", "public"}

---------------------------------------------------------------------------
(* The builder: a column is constructed, configured by setter calls in any *)
(* order, validated and serialized.                                        *)

\* nothing called yet
Untouched ==
    /\ inserted = [p \in ColIds |-> <<>>]
    /\ setters = 0
    /\ colRet = [p \in ColIds |-> NoRet]
    /\ valRet = [p \in ColIds |-> NoRet]
    /\ typeRet = [p \in ColIds |-> NoRet]
    /\ tableRet = NoRet
    /\ alterRet = NoRet
    /\ panic = ""

Init ==
    /\ cols = [p \in ColIds |-> NewColumn(ColumnName(p))]
    /\ table = NewTable("t")
    /\ alter = NewAlterTable("t")
    /\ Untouched
    /\ StatementsIdle
    /\ IndexesIdle

Setter(p) ==
    \/ SetName(p, "ident")
    \/ SetPrimaryKey(p)
    \/ SetUnique(p)
    \/ SetNotNull(p)
    \/ \E dataType \in SomeDataTypes : SetDataType(p, dataType)
    \/ \E v \in SomeDefaults : SetDefault(p, v)
    \/ SetAutoNumber(p)
    \/ \E startNumber \in SomeStarts, prefix \in SomePrefixes :
          SetAutoNumberWithPrefix(p, startNumber, prefix)
    \/ SetReferences(p, "users", "id")
    \/ SetReferencesOnDeleteCascade(p, "users", "id")
    \/ \E check \in SomeChecks : SetCheck(p, check)
    \/ SetGenerated(p, "a + b")
    \/ SetLength(p, MaxLen)
    \/ SetPrecision(p, MaxLen)
    \/ SetScale(p, MaxLen)
    \/ SetCollation(p, "en_US")
    \/ SetComment(p, "note")
    \/ SetStorage(p, "PLAIN")
    \/ SetCompression(p, "lz4")
    \/ \E identityStart \in SomeIdentities : SetIdentityStart(p, identityStart)
    \/ \E identityInc \in SomeIdentities : SetIdentityIncrement(p, identityInc)
    \/ \E pairs \in SomePairs : SetAttributes(p, pairs)
    \/ SetNewName(p, "renamed")
    \/ SetNewDataType(p, IntegerType)

Next ==
    \/ Setter("c1")
    \/ CallColumnValidate("c1")
    \/ CallColumnToSQL("c1")
    \/ CallToDataType("c1")

Spec == Init /\ [][Next]_vars

---------------------------------------------------------------------------
(* Two columns constructed with the same name and configured side by side. *)

InitPair ==
    /\ cols \in [ColIds -> {NewColumn("id"),
                            [NewColumn("id") EXCEPT !.DataType = SerialType]}]
    /\ cols["c3"] = NewColumn("id")
    /\ table = NewTable("t")
    /\ alter = NewAlterTable("t")
    /\ Untouched
    /\ StatementsIdle
    /\ IndexesIdle

NextPair ==
    \E p \in {"c1", "c2"} :
        \/ SetDataType(p, SerialType)
        \/ \E pairs \in SomePairs : SetAttributes(p, pairs)
        \/ CallColumnToSQL(p)

SpecPair == InitPair /\ [][NextPair]_vars

---------------------------------------------------------------------------
(* Validation of a column whose fields were set to any combination of      *)
(* values (by the setters, by assignment to the exported fields or by      *)
(* unmarshalling).                                                         *)

InitValidate ==
    /\ \E dataType \in {"", SerialType, "json"},
          autoNumber \in BOOLEAN, startNumber \in {-1, 0, 1},
          notNull \in BOOLEAN, default \in {"", "x"},
          identityStart \in {-1, 0, 1}, identityInc \in {-1, 0, 1},
          check \in {""} \cup SomeChecks,
          references \in {""} \cup SomeReferences :
          cols = [p \in ColIds |->
                    IF p # "c1" THEN NewColumn(ColumnName(p))
                    ELSE [NewColumn("id") EXCEPT
                            !.DataType = dataType,
                            !.AutoNumber = autoNumber,
                            !.AutoNumberStart = startNumber,
                            !.NotNull = notNull,
                            !.Default = default,
                            !.IdentityStart = identityStart,
                            !.IdentityInc = identityInc,
                            !.Check = check,
                            !.References = references]]
    /\ table = NewTable("t")
    /\ alter = NewAlterTable("t")
    /\ Untouched
    /\ StatementsIdle
    /\ IndexesIdle

NextValidate ==
    \/ CallColumnValidate("c1")
    \/ CallColumnToSQL("c1")

SpecValidate == InitValidate /\ [][NextValidate]_vars

---------------------------------------------------------------------------
(* The type token of a column of any type, length, precision and scale.    *)

InitType ==
    /\ \E dataType \in validDataTypes \cup {"", "json"},
          length \in -1..MaxLen, precision \in -1..MaxLen,
          scale \in -1..MaxLen :
          cols = [p \in ColIds |->
                    IF p # "c1" THEN NewColumn(ColumnName(p))
                    ELSE [NewColumn("id") EXCEPT
                            !.DataType = dataType, !.Length = length,
                            !.Precision = precision, !.Scale = scale]]
    /\ table = NewTable("t")
    /\ alter = NewAlterTable("t")
    /\ Untouched
    /\ StatementsIdle
    /\ IndexesIdle

NextType ==
    \/ CallToDataType("c1")
    \/ CallColumnToSQL("c1")

SpecType == InitType /\ [][NextType]_vars

---------------------------------------------------------------------------
(* The default clause: a typed column is given default values.             *)

NextDefault ==
    \/ \E dataType \in {StringType, BooleanType} : SetDataType("c1", dataType)
    \/ \E v \in SomeDefaultArgs : SetDefault("c1", v)
    \/ SetNotNull("c1")
    \/ CallColumnToSQL("c1")

SpecDefault == Init /\ [][NextDefault]_vars

---------------------------------------------------------------------------
(* CREATE TABLE: columns of every kind are added to a table.               *)

\* the columns a table is put together from: valid ones and invalid ones
SeedColumns(name) ==
    { NewColumn(name),
      [NewColumn(name) EXCEPT !.DataType = "json"],
      [NewColumn(name) EXCEPT !.DataType = SerialType, !.PrimaryKey = TRUE],
      [NewColumn(name) EXCEPT !.DataType = StringType, !.Length = 50,
                              !.NotNull = TRUE],
      [NewColumn(name) EXCEPT !.DataType = StringType, !.NotNull = TRUE,
                              !.Default = "x"] }

InitTable ==
    /\ cols \in [ColIds -> UNION {SeedColumns(ColumnName(p)) : p \in ColIds}]
    /\ \A p \in ColIds : cols[p] \in SeedColumns(ColumnName(p))
    /\ cols["c3"] = NewColumn(ColumnName("c3"))
    /\ \E name \in {"", "users"} : table = NewTable(name)
    /\ alter = NewAlterTable("t")
    /\ Untouched
    /\ StatementsIdle
    /\ IndexesIdle

NextTable ==
    \/ \E p \in {"c1", "c2", NilCol} : TableAddColumn(p)
    \/ TableSetComment("people")
    \/ CallTableToSQL

SpecTable == InitTable /\ [][NextTable]_vars

---------------------------------------------------------------------------
(* ALTER TABLE: operations on columns of every kind are registered.        *)

\* the columns of an AlterTable: with and without an update descriptor
AlterSeedColumns(name) ==
    SeedColumns(name) \cup
    { [NewColumn(name) EXCEPT
          !.UpdateOptions = [Name |-> "renamed", DataType |-> ""]],
      [NewColumn(name) EXCEPT !.DataType = StringType,
          !.UpdateOptions = [Name |-> "", DataType |-> IntegerType]],
      [NewColumn(name) EXCEPT !.DataType = IntegerType,
          !.UpdateOptions = [Name |-> "", DataType |-> ""]] }

InitAlter ==
    /\ cols \in [ColIds -> UNION {AlterSeedColumns(ColumnName(p)) : p \in ColIds}]
    /\ \A p \in ColIds : cols[p] \in AlterSeedColumns(ColumnName(p))
    /\ cols["c3"] = NewColumn(ColumnName("c3"))
    /\ table = NewTable("t")
    /\ \E name \in {"", "users"} : alter = NewAlterTable(name)
    /\ Untouched
    /\ StatementsIdle
    /\ IndexesIdle

NextAlter ==
    \/ \E p \in {"c1", "c2", NilCol} : AlterTableAddColumn(p)
    \/ \E p \in {"c1", "c2", NilCol} : AlterTableDropColumn(p)
    \/ \E p \in {"c1", "c2", NilCol} : AlterTableAlterColumn(p)
    \/ AlterTableSetComment("changed")
    \/ CallAlterTableToSQL

SpecAlter == InitAlter /\ [][NextAlter]_vars

---------------------------------------------------------------------------
(* ALTER COLUMN ... TYPE: columns of any current and new type, valid or    *)
(* not, are registered for a type change.                                  *)

InitAlterType ==
    /\ \E dataType \in {"", "json", IntegerType, StringType, DecimalType},
          newDataType \in {"json", StringType, DecimalType, DateTimeType},
          length \in {0, 50}, precision \in {0, 10}, scale \in {0, 2},
          notNull \in BOOLEAN :
          cols = [p \in ColIds |->
                    IF p = "c1" THEN
                        [NewColumn("id") EXCEPT
                            !.DataType = dataType, !.Length = length,
                            !.Precision = precision, !.Scale = scale,
                            !.NotNull = notNull, !.Default = "x",
                            !.UpdateOptions =
                                [Name |-> "", DataType |-> newDataType]]
                    ELSE IF p = "c2" THEN
                        [NewColumn("name") EXCEPT
                            !.DataType = IntegerType, !.Length = 50,
                            !.UpdateOptions =
                                [Name |-> "", DataType |-> StringType]]
                    ELSE NewColumn(ColumnName(p))]
    /\ table = NewTable("t")
    /\ alter = NewAlterTable("users")
    /\ Untouched
    /\ StatementsIdle
    /\ IndexesIdle

NextAlterType ==
    \/ \E p \in {"c1", "c2"} : AlterTableAlterColumn(p)
    \/ \E newDataType \in {"", "json"} : SetNewDataType("c1", newDataType)
    \/ CallAlterTableToSQL

SpecAlterType == InitAlterType /\ [][NextAlterType]_vars

---------------------------------------------------------------------------
(* The index statements.                                                   *)

\* the column, table and alter-table builders are not used
ColumnsIdle ==
    /\ cols = [p \in ColIds |-> NewColumn(ColumnName(p))]
    /\ table = NewTable("t")
    /\ alter = NewAlterTable("t")
    /\ Untouched
    /\ StatementsIdle

\* CREATE INDEX: a named index on a table is configured by setter calls in
\* any order.
InitIndex ==
    /\ ColumnsIdle
    /\ index = [NewIndex("idx_users") EXCEPT !.table = "users"]
    /\ indexRet = NoRet
    /\ dropIndex = NewDropIndex("")
    /\ dropIndexRet = NoRet
    /\ renameIndex = NewRenameIndex("", "")
    /\ renameIndexRet = NoRet

NextIndex ==
    \/ IndexOnTable("users")
    \/ \E column \in SomeIndexColumns : IndexAddColumn(column)
    \/ \E expression \in SomeExpressions : IndexExpressionIndex(expression)
    \/ \E columns \in SomeColumnLists : IndexMultiColumnIndex(columns)
    \/ IndexSetUnique
    \/ IndexSetConcurrently
    \/ \E method \in SomeMethods : IndexSetMethod(method)
    \/ IndexSetWhere("active")
    \/ IndexPartialIndex("active")
    \/ \E schema \in SomeSchemas : IndexSetSchema(schema)
    \/ \E column \in SomeIncludeColumns : IndexAddIncludeColumn(column)
    \/ IndexSetTablespace("fast")
    \/ \E option \in SomeWithOptions : IndexAddWithOption(option)
    \/ CallIndexToSQL

SpecIndex == InitIndex /\ [][NextIndex]_vars

\* The access method: SetMethod is called, or not, among other setters.
NextMethod ==
    \/ IndexAddColumn("a")
    \/ \E method \in {"", "hash", "btree"} : IndexSetMethod(method)
    \/ IndexSetUnique
    \/ IndexSetWhere("active")
    \/ IndexSetSchema("public")
    \/ IndexSetTablespace("fast")
    \/ CallIndexToSQL

SpecMethod == InitIndex /\ [][NextMethod]_vars

\* The required fields of the index statements: each statement is built
\* with and without its name, table and columns.
InitRequired ==
    /\ ColumnsIdle
    /\ \E name \in {"", "idx_users"} : index = NewIndex(name)
    /\ indexRet = NoRet
    /\ \E name \in {"", "idx_users"} : dropIndex = NewDropIndex(name)
    /\ dropIndexRet = NoRet
    /\ \E oldName, newName \in {"", "idx_a", "idx_b"} :
          renameIndex = NewRenameIndex(oldName, newName)
    /\ renameIndexRet = NoRet

NextRequired ==
    \/ \E t \in {"", "users"} : IndexOnTable(t)
    \/ IndexAddColumn("a")
    \/ IndexSetUnique
    \/ CallIndexToSQL
    \/ DropIndexSetIfExists
    \/ DropIndexSetConcurrently
    \/ DropIndexSetCascade
    \/ DropIndexSetRestrict
    \/ DropIndexSetSchema("public")
    \/ CallDropIndexToSQL
    \/ RenameIndexSetSchema("public")
    \/ CallRenameIndexToSQL

SpecRequired == InitRequired /\ [][NextRequired]_vars

\* DROP INDEX: a drop statement is configured by setter calls in any order.
InitDropIndex ==
    /\ ColumnsIdle
    /\ index = NewIndex("")
    /\ indexRet = NoRet
    /\ \E name \in {"", "idx_users"} : dropIndex = NewDropIndex(name)
    /\ dropIndexRet = NoRet
    /\ renameIndex = NewRenameIndex("", "")
    /\ renameIndexRet = NoRet

NextDropIndex ==
    \/ DropIndexSetIfExists
    \/ DropIndexSetConcurrently
    \/ DropIndexSetCascade
    \/ DropIndexSetRestrict
    \/ \E schema \in {"", "public", "auth"} : DropIndexSetSchema(schema)
    \/ CallDropIndexToSQL

SpecDropIndex == InitDropIndex /\ [][NextDropIndex]_vars

\* REINDEX, ALTER INDEX ... SET TABLESPACE and DROP TABLE: each statement is
\* constructed with any of the arguments below and configured by its setters.
SomeTargets == {"", "table", "TABLE", "Index", "system", "DATABASE", "schema"}

SomeNames == {"", "users"}

InitStatements ==
    /\ cols = [p \in ColIds |-> NewColumn(ColumnName(p))]
    /\ table = NewTable("t")
    /\ alter = NewAlterTable("t")
    /\ Untouched
    /\ IndexesIdle
    /\ \E target \in SomeTargets, name \in SomeNames :
          reindex = NewReindex(target, name)
    /\ reindexRet = NoRet
    /\ \E indexName \in {"", "idx_users"}, tablespace \in {"", "fast"} :
          setTablespace = NewSetIndexTablespace(indexName, tablespace)
    /\ setTablespaceRet = NoRet
    /\ \E name \in SomeNames : dropTable = NewDropTable(name)
    /\ dropTableRet = NoRet

NextStatements ==
    \/ ReindexSetConcurrently
    \/ CallReindexToSQL
    \/ SetIndexTablespaceSetNowait
    \/ \E schema \in SomeSchemas : SetIndexTablespaceSetSchema(schema)
    \/ CallSetIndexTablespaceToSQL
    \/ \E cascade \in BOOLEAN : DropTableSetCascade(cascade)
    \/ CallDropTableToSQL

SpecStatements == InitStatements /\ [][NextStatements]_vars

---------------------------------------------------------------------------
(* Every builder: a program builds the statement of one builder, which the *)
(* initial state chooses, and calls the methods of that builder only.      *)

\* no method of a column was called
ColumnsUncalled ==
    /\ inserted = [p \in ColIds |-> <<>>]
    /\ setters = 0
    /\ colRet = [p \in ColIds |-> NoRet]
    /\ valRet = [p \in ColIds |-> NoRet]
    /\ typeRet = [p \in ColIds |-> NoRet]

\* the columns are as constructed
ColumnsBare == cols = [p \in ColIds |-> NewColumn(ColumnName(p))]

TableIdle == table = NewTable("t") /\ tableRet = NoRet

AlterIdle == alter = NewAlterTable("t") /\ alterRet = NoRet

InitEvery ==
    \/ InitValidate
    \/ InitTable
    \/ InitAlter
    \/ InitRequired
    \/ InitStatements

NextEvery ==
    \/ /\ TableIdle /\ AlterIdle /\ IndexesIdle /\ StatementsIdle
       /\ NextValidate
    \/ /\ ColumnsUncalled /\ AlterIdle /\ IndexesIdle /\ StatementsIdle
       /\ \A p \in ColIds : cols[p] \in SeedColumns(ColumnName(p))
       /\ NextTable
    \/ /\ ColumnsUncalled /\ TableIdle /\ IndexesIdle /\ StatementsIdle
       /\ \A p \in ColIds : cols[p] \in AlterSeedColumns(ColumnName(p))
       /\ NextAlter
    \/ /\ ColumnsUncalled /\ ColumnsBare /\ TableIdle /\ AlterIdle
       /\ StatementsIdle
       /\ NextRequired
    \/ /\ ColumnsUncalled /\ ColumnsBare /\ TableIdle /\ AlterIdle
       /\ IndexesIdle
       /\ NextStatements

SpecEvery == InitEvery /\ [][NextEvery]_vars

---------------------------------------------------------------------------
(* Columns with and without a name, serialized alone and as operations of  *)
(* an AlterTable.                                                          *)

InitUnnamed ==
    /\ \E name \in {"", "id"}, dataType \in {"", SerialType},
          newName \in {"", "renamed"} :
          cols = [p \in ColIds |->
                    IF p # "c1" THEN NewColumn(ColumnName(p))
                    ELSE [NewColumn(name) EXCEPT
                            !.DataType = dataType,
                            !.UpdateOptions =
                                [Name |-> newName, DataType |-> ""]]]
    /\ table = NewTable("t")
    /\ alter = NewAlterTable("users")
    /\ Untouched
    /\ StatementsIdle
    /\ IndexesIdle

NextUnnamed ==
    \/ \E name \in {"", "id"} : SetName("c1", name)
    \/ CallColumnToSQL("c1")
    \/ AlterTableAddColumn("c1")
    \/ AlterTableDropColumn("c1")
    \/ AlterTableAlterColumn("c1")
    \/ CallAlterTableToSQL

SpecUnnamed == InitUnnamed /\ [][NextUnnamed]_vars

---------------------------------------------------------------------------
(* ALTER COLUMN: columns with every kind of update descriptor are handed   *)
(* to AlterColumn, and their descriptors are changed before and after.     *)

\* the update descriptors of a column: none, and a new name and a new data
\* type each populated or not
SomeUpdates ==
    {NilUpdate} \cup [Name : {"", "renamed"}, DataType : {"", IntegerType}]

InitAlterColumn ==
    /\ \E u1, u2 \in SomeUpdates :
          cols = [p \in ColIds |->
                    IF p = "c3" THEN NewColumn(ColumnName(p))
                    ELSE [NewColumn(ColumnName(p)) EXCEPT
                            !.DataType = StringType,
                            !.UpdateOptions = IF p = "c1" THEN u1 ELSE u2]]
    /\ table = NewTable("t")
    /\ alter = NewAlterTable("users")
    /\ Untouched
    /\ StatementsIdle
    /\ IndexesIdle

NextAlterColumn ==
    \/ \E p \in {"c1", "c2", NilCol} : AlterTableAlterColumn(p)
    \/ \E newName \in {"", "renamed"} : SetNewName("c1", newName)
    \/ \E newDataType \in {"", IntegerType} : SetNewDataType("c1", newDataType)
    \/ CallAlterTableToSQL

SpecAlterColumn == InitAlterColumn /\ [][NextAlterColumn]_vars

---------------------------------------------------------------------------
(* Properties.                                                             *)

\* the pointers of the failing and of the serializable columns among ps
Failing(ps) == SelectSeq(ps, LAMBDA p : Validate(cols[p]) # nil)
Passing(ps) == SelectSeq(ps, LAMBDA p : Validate(cols[p]) = nil)

\* the ADD operations of the AlterTable whose column fails validation
FailingAdds ==
    {i \in 1..Len(alter.Operations) :
        /\ alter.Operations[i].Operation = AddColumnOp
        /\ Validate(cols[alter.Operations[i].Column]) # nil}

\* C1: whenever AlterTable.ToSQL has run on a named AlterTable with an ADD
\* operation whose column fails validation, it returned the empty string
\* and a non-empty error set that contains that column's error.
C1_AddFailurePreventsSQL ==
    (alterRet # NoRet /\ alter.TableName # "") =>
        \A i \in FailingAdds :
            /\ alterRet.sql = ""
            /\ alterRet.errs # <<>>
            /\ \E j \in 1..Len(alterRet.errs) :
                  alterRet.errs[j] = Validate(cols[alter.Operations[i].Column])

\* the errors of the failing columns of the table, in column list order
FailingErrors ==
    [i \in 1..Len(Failing(table.Columns)) |->
        Validate(cols[Failing(table.Columns)[i]])]

\* C2 as stated: whenever Table.ToSQL has returned for a named table with a
\* failing column, it returned the empty string and exactly one error per
\* failing column, in column list order; SQL text is returned only when
\* every column is valid.
C2_OneErrorPerFailingColumn ==
    (tableRet # NoRet /\ table.Name # "") =>
        /\ FailingErrors # <<>> =>
              tableRet.sql = "" /\ tableRet.errs = FailingErrors
        /\ tableRet.sql # "" => FailingErrors = <<>>

\* C2 as amended: whenever Table.ToSQL has returned for a named table with
\* a failing column, it returned the empty string and one error per failing
\* column, in column list order, followed by the "no valid columns" error
\* when no column serialized; SQL text is returned only when every column
\* is valid.
C2_ErrorsOfFailingColumns ==
    (tableRet # NoRet /\ table.Name # "") =>
        /\ FailingErrors # <<>> =>
              /\ tableRet.sql = ""
              /\ tableRet.errs =
                    FailingErrors \o
                    (IF Passing(table.Columns) = <<>>
                        THEN <<"no valid columns defined for table "
                                  \o table.Name>>
                        ELSE <<>>)
        /\ tableRet.sql # "" => FailingErrors = <<>>

\* C2 witness: Table.ToSQL has returned the errors of the failing columns
\* for a named table that holds both a failing and a valid column.
C2_Witness ==
    /\ tableRet # NoRet
    /\ table.Name # ""
    /\ Len(table.Columns) >= 2
    /\ Passing(table.Columns) # <<>>
    /\ Failing(table.Columns) # <<>>
    /\ tableRet.errs = FailingErrors

\* C3: two valid columns with identical field values for which
\* Column.ToSQL has returned got identical text.
C3_Deterministic ==
    \A p, q \in ColIds :
        (/\ colRet[p] # NoRet /\ colRet[q] # NoRet
         /\ cols[p] = cols[q]
         /\ Validate(cols[p]) = nil)
        => colRet[p].sql = colRet[q].sql

\* C4: a ToSQL call that follows a ToSQL call on the same entity with no
\* setter call in between returns what the first call returned and leaves
\* the entity unchanged.
C4_Idempotent ==
    [][ /\ \A p \in ColIds :
              (colRet[p] # NoRet /\ colRet'[p] # NoRet) =>
                  colRet'[p] = colRet[p] /\ cols'[p] = cols[p]
        /\ (tableRet # NoRet /\ tableRet' # NoRet) =>
              tableRet' = tableRet /\ table' = table
        /\ (alterRet # NoRet /\ alterRet' # NoRet) =>
              alterRet' = alterRet /\ alter' = alter ]_vars

\* the last n elements of s
Last(s, n) == SubSeq(s, Len(s) - n + 1, Len(s))

\* C5: the text Column.ToSQL returned for a valid column ends with the
\* attributes as `key value` fragments in the order the keys were inserted.
C5_InsertionOrder ==
    \A p \in ColIds :
        (colRet[p] # NoRet /\ colRet[p].err = nil) =>
            Last(colRet[p].writes, Len(inserted[p])) =
                [i \in 1..Len(inserted[p]) |->
                    " " \o inserted[p][i] \o " "
                        \o cols[p].Attributes[inserted[p][i]]]

\* the clause keywords of a column definition, in the order C6 states
ClauseKeywords ==
    << " PRIMARY KEY", " AUTOINCREMENT", " START WITH ", " PREFIX '",
       " NOT NULL", " UNIQUE", " DEFAULT ", " CHECK ", " REFERENCES ",
       " GENERATED ALWAYS AS (", " COLLATE ", " COMMENT '", " STORAGE ",
       " COMPRESSION ", " IDENTITY (" >>

AttributeRank == Len(ClauseKeywords) + 1

\* the place of fragment w in that order; an attribute comes last
Rank(w) ==
    IF \E k \in 1..Len(ClauseKeywords) : HasPrefix(w, ClauseKeywords[k])
        THEN CHOOSE k \in 1..Len(ClauseKeywords) : HasPrefix(w, ClauseKeywords[k])
        ELSE AttributeRank

TypeKeywords ==
    {"SERIAL", "VARCHAR", "INTEGER", "DECIMAL", "BOOLEAN", "DATE", "TIMESTAMP"}

\* when clause k is due on column c
ClauseDue(c) ==
    << c.PrimaryKey,
       c.AutoNumber,
       c.AutoNumber /\ c.AutoNumberStart > 0,
       c.AutoNumber /\ c.AutoNumberPrefix # "",
       c.NotNull,
       c.Unique,
       c.Default # "",
       c.Check # "",
       c.References # "",
       c.Generated # "",
       c.Collation # "",
       c.Comment # "",
       c.Storage # "",
       c.Compression # "",
       c.IdentityStart > 0 /\ c.IdentityInc > 0 >>

\* C6: the text Column.ToSQL returned for a valid column is the name, a
\* space and the type token, followed by the clauses in the fixed order
\* PRIMARY KEY, AUTOINCREMENT [START WITH] [PREFIX], NOT NULL, UNIQUE,
\* DEFAULT, CHECK, REFERENCES, GENERATED, COLLATE, COMMENT, STORAGE,
\* COMPRESSION, IDENTITY, attributes, whatever the order of the setter
\* calls; each clause is there once if its field is set and not otherwise.
C6_ClauseOrder ==
    \A p \in ColIds :
        (colRet[p] # NoRet /\ colRet[p].err = nil) =>
            LET w    == colRet[p].writes
                c    == cols[p]
                rest == SubSeq(w, 4, Len(w))
            IN  /\ Len(w) >= 3
                /\ colRet[p].sql = Concat(w)
                /\ w[1] = c.Name
                /\ w[2] = " "
                /\ \E t \in TypeKeywords : HasPrefix(w[3], t)
                /\ \A i, j \in 1..Len(rest) :
                      i < j =>
                        \/ Rank(rest[i]) < Rank(rest[j])
                        \/ Rank(rest[i]) = AttributeRank
                           /\ Rank(rest[j]) = AttributeRank
                /\ \A k \in 1..Len(ClauseKeywords) :
                      ClauseDue(c)[k] <=> \E i \in 1..Len(rest) : Rank(rest[i]) = k
                /\ Cardinality({i \in 1..Len(rest) : Rank(rest[i]) = AttributeRank})
                      = Cardinality(DOMAIN c.Attributes)

\* C6 witness: Column.ToSQL has returned the text of a column on which
\* SetUnique was called before the auto-number setter.
C6_Witness ==
    /\ colRet["c1"] # NoRet
    /\ colRet["c1"].err = nil
    /\ colRet["c1"].sql = "id SERIAL AUTOINCREMENT START WITH 2 PREFIX 'P' UNIQUE"

\* the rules of Column.Validate in the order C7 states, as violated or not
RuleViolated(c) ==
    << c.DataType \notin {"serial", "string", "integer", "decimal",
                          "boolean", "date", "datetime"},
       c.AutoNumber /\ ~(c.AutoNumberStart >= 0),
       c.NotNull /\ c.Default # "",
       c.IdentityStart > 0 /\ ~(c.IdentityInc > 0),
       c.Check # "" /\ ~Contains(c.Check, "("),
       c.References # "" /\ ~Contains(c.References, "(") >>

RuleError(c) ==
    << "invalid data type: " \o c.DataType,
       "auto-number start must be greater or equal than 0",
       "column cannot be both NOT NULL and have a DEFAULT value",
       "identity increment must be greater than 0",
       "check constraint must have an expression in parentheses",
       "foreign key references must be in the format 'table(column)'" >>

Violations(c) == {k \in 1..6 : RuleViolated(c)[k]}

EarliestViolation(c) ==
    CHOOSE k \in Violations(c) : \A l \in Violations(c) : k <= l

\* C7: what Column.Validate returned is the error of the earliest violated
\* rule in the order (a) type, (b) auto-number start, (c) not-null with
\* default, (d) identity increment, (e) check, (f) references, and nil
\* exactly when no rule is violated.
C7_EarliestRuleWins ==
    \A p \in ColIds :
        valRet[p] # NoRet =>
            /\ Violations(cols[p]) # {} =>
                  valRet[p].err = RuleError(cols[p])[EarliestViolation(cols[p])]
            /\ valRet[p].err = nil <=> Violations(cols[p]) = {}

\* C7 witness: Column.Validate has returned for a column that violates the
\* rules (c), (d) and (f) at once.
C7_Witness ==
    /\ valRet["c1"] # NoRet
    /\ Violations(cols["c1"]) = {3, 4, 6}
    /\ valRet["c1"].err = "column cannot be both NOT NULL and have a DEFAULT value"

\* C8: for a column with NotNull set and a non-empty Default, whatever its
\* other fields, Column.Validate returned an error and Column.ToSQL
\* returned that error with the empty string.
C8_NotNullWithDefault ==
    \A p \in ColIds :
        (cols[p].NotNull /\ cols[p].Default # "") =>
            /\ valRet[p] # NoRet => valRet[p].err # nil
            /\ colRet[p] # NoRet => colRet[p].sql = "" /\ colRet[p].err # nil
            /\ (valRet[p] # NoRet /\ colRet[p] # NoRet) =>
                  colRet[p].err = valRet[p].err

\* C8 witness: both calls have returned for a typed column on which
\* SetDefault and SetNotNull were called.
C8_Witness ==
    /\ cols["c1"].NotNull
    /\ cols["c1"].Default # ""
    /\ cols["c1"].DataType \in validDataTypes
    /\ valRet["c1"] # NoRet
    /\ colRet["c1"] # NoRet
    /\ colRet["c1"].sql = ""

\* "set", of a length, precision or scale
IsSet(n) == n > 0

\* the type token as C9 states it
ClaimedTypeToken(c) ==
    CASE c.DataType = "serial"   -> "SERIAL"
      [] c.DataType = "string"   ->
            IF c.Length > 0 THEN "VARCHAR(" \o ToString(c.Length) \o ")"
                            ELSE "VARCHAR"
      [] c.DataType = "integer"  -> "INTEGER"
      [] c.DataType = "decimal"  ->
            IF IsSet(c.Precision) /\ IsSet(c.Scale)
                THEN "DECIMAL(" \o ToString(c.Precision) \o ","
                         \o ToString(c.Scale) \o ")"
            ELSE IF IsSet(c.Precision)
                THEN "DECIMAL(" \o ToString(c.Precision) \o ")"
            ELSE "DECIMAL"
      [] c.DataType = "boolean"  -> "BOOLEAN"
      [] c.DataType = "date"     -> "DATE"
      [] c.DataType = "datetime" -> "TIMESTAMP"
      [] OTHER                   -> "VARCHAR"

\* C9: the type token Column.ToDataType returned is the one the mapping
\* gives for the data type, length, precision and scale of the column,
\* for zero and negative values too.
C9_TypeToken ==
    \A p \in ColIds :
        typeRet[p] # NoRet => typeRet[p].token = ClaimedTypeToken(cols[p])

\* the literals C10 lists as unquoted
ListedLiterals ==
    {"CURRENT_TIMESTAMP", "CURRENT_DATE", "CURRENT_TIME", "LOCAL_TIME",
     "LOCAL_TIMESTAMP", "TRUE", "FALSE", "NULL", "true", "false"}

\* C10: in the text Column.ToSQL returned for a valid column with a
\* non-empty default d, the default clause is DEFAULT d if d is one of the
\* listed literals or parses as a floating-point number, and DEFAULT 'd',
\* with d as it is, otherwise.
C10_DefaultQuoting ==
    \A p \in ColIds :
        (colRet[p] # NoRet /\ colRet[p].err = nil /\ cols[p].Default # "") =>
            LET d == cols[p].Default
                w == colRet[p].writes
                clause == IF d \in ListedLiterals \/ ParseFloatOK(d)
                            THEN " DEFAULT " \o d
                            ELSE " DEFAULT '" \o d \o "'"
            IN  /\ Cardinality({i \in 1..Len(w) : HasPrefix(w[i], " DEFAULT")}) = 1
                /\ \E i \in 1..Len(w) : w[i] = clause
                /\ colRet[p].sql = Concat(w)

\* C10 witness: Column.ToSQL has returned a quoted default for a literal
\* that is a near miss of a listed keyword.
C10_Witness ==
    /\ colRet["c1"] # NoRet
    /\ colRet["c1"].sql = "id BOOLEAN DEFAULT 'True'"

\* C11: whenever Table.ToSQL has run on a table whose name is empty, it
\* returned the empty string and an error set that holds the table-name
\* error alone, whichever columns were added; no column was visited, so
\* the call did not fail on a nil column either.
C11_EmptyNameRejects ==
    table.Name = "" =>
        /\ panic # "Table.ToSQL"
        /\ tableRet # NoRet =>
              /\ tableRet.sql = ""
              /\ tableRet.errs = <<"table name cannot be empty">>

\* C11 witness: Table.ToSQL has returned for an unnamed table to which a
\* failing column and a nil column were added.
C11_Witness ==
    /\ table.Name = ""
    /\ tableRet # NoRet
    /\ \E i, j \in 1..Len(table.Columns) :
          /\ table.Columns[i] = NilCol
          /\ table.Columns[j] # NilCol
          /\ Validate(cols[table.Columns[j]]) # nil

\* C12: whenever Table.ToSQL has returned for a named table of which no
\* column serializes (no column was added, or every column fails
\* validation), it returned the empty string and the error of every
\* failing column, in list order, followed by the one error "no valid
\* columns defined for table <name>".
C12_NoValidColumns ==
    (tableRet # NoRet /\ table.Name # "" /\ Passing(table.Columns) = <<>>) =>
        /\ tableRet.sql = ""
        /\ tableRet.errs =
              Append(FailingErrors,
                     "no valid columns defined for table " \o table.Name)

\* C12 witness: Table.ToSQL has returned three errors for a named table
\* with two columns that fail for different reasons.
C12_Witness ==
    /\ tableRet # NoRet
    /\ table.Name # ""
    /\ Len(table.Columns) = 2
    /\ Passing(table.Columns) = <<>>
    /\ Len(tableRet.errs) = 3
    /\ tableRet.errs[1] # tableRet.errs[2]

\* an AlterTable is valid: it is named, has an operation, and the column
\* of every ADD operation passes validation
ValidAlter ==
    /\ alter.TableName # ""
    /\ Len(alter.Operations) > 0
    /\ FailingAdds = {}

\* the fragment the statement holds for operation op
Fragment(op) ==
    LET c == cols[op.Column]
    IN  CASE op.Operation = AddColumnOp ->
                "ADD COLUMN " \o Concat(ColumnWrites(c, <<>>))
          [] op.Operation = DropColumnOp -> "DROP COLUMN " \o c.Name
          [] op.Operation = RenameColumnOp ->
                "RENAME COLUMN " \o c.Name \o " TO " \o c.UpdateOptions.Name
          [] op.Operation = AlterColumnTypeOp ->
                "ALTER COLUMN " \o ToDataType(c) \o " TYPE " \o ToNewDataType(c)

\* the trailing fragment of a commented AlterTable
CommentFragment ==
    IF alter.Comment = "" THEN ""
    ELSE " COMMENT ON TABLE " \o alter.TableName \o " IS '"
            \o alter.Comment \o "'"

\* C13: every call that registers an operation appends it after the
\* operations registered before, and whenever AlterTable.ToSQL has run on
\* a valid AlterTable it returned, without error, the one statement
\* ALTER TABLE <name> followed by the comma-joined fragments of the
\* registered operations, one per operation and in the order of their
\* registration (and by the comment fragment if a comment is set).
C13_OperationOrder ==
    /\ [](((alterRet # NoRet) /\ ValidAlter) =>
            /\ alterRet.errs = <<>>
            /\ alterRet.sql =
                  "ALTER TABLE " \o alter.TableName \o " "
                     \o Join([i \in 1..Len(alter.Operations) |->
                                 Fragment(alter.Operations[i])], ", ")
                     \o CommentFragment)
    /\ [][alter'.Operations # alter.Operations =>
             \E kind \in {AddColumnOp, DropColumnOp, RenameColumnOp,
                          AlterColumnTypeOp}, p \in ColIds :
                alter'.Operations =
                    Append(alter.Operations, [Operation |-> kind, Column |-> p])]_vars

\* C13 witness: AlterTable.ToSQL has returned the statement of a rename
\* registered first and an add registered second.
C13_Witness ==
    /\ alterRet # NoRet
    /\ ValidAlter
    /\ Len(alter.Operations) = 2
    /\ alter.Operations[1].Operation = RenameColumnOp
    /\ alter.Operations[2].Operation = AddColumnOp
    /\ alterRet.sql # ""

\* C14: whenever AlterTable.ToSQL has run on an AlterTable without name or
\* without operation, it returned the empty string and the error set of
\* the validation alone: both errors when the name is empty and the list
\* is empty, the one error of the defect otherwise; no error of a column
\* is in the set.
C14_ValidationAggregates ==
    (alterRet # NoRet /\ (alter.TableName = "" \/ alter.Operations = <<>>)) =>
        /\ alterRet.sql = ""
        /\ alterRet.errs =
              IF alter.TableName = "" /\ alter.Operations = <<>>
                  THEN <<"table name cannot be empty",
                         "alter table must have at least one operation">>
              ELSE IF alter.TableName = ""
                  THEN <<"table name cannot be empty">>
              ELSE <<"alter table must have at least one operation">>

\* C14 witness: AlterTable.ToSQL has returned both validation errors.
C14_Witness ==
    /\ alterRet # NoRet
    /\ alter.TableName = ""
    /\ alter.Operations = <<>>
    /\ Len(alterRet.errs) = 2

\* no operation of the AlterTable produces a definition: the list is not
\* empty and every operation is an ADD whose column fails validation
NoOperationSerializes ==
    /\ alter.Operations # <<>>
    /\ FailingAdds = 1..Len(alter.Operations)

\* C15: whenever AlterTable.ToSQL has run on a named AlterTable of which
\* no operation produces a definition, it returned the empty string and
\* the error of each failed column, in list order, followed by the one
\* error "no valid operations defined for table <name>".
C15_NoValidOperations ==
    (alterRet # NoRet /\ alter.TableName # "" /\ NoOperationSerializes) =>
        /\ alterRet.sql = ""
        /\ alterRet.errs =
              Append([i \in 1..Len(alter.Operations) |->
                         Validate(cols[alter.Operations[i].Column])],
                     "no valid operations defined for table "
                        \o alter.TableName)

\* C15 witness: AlterTable.ToSQL has returned three errors for two ADD
\* operations whose columns fail for different reasons.
C15_Witness ==
    /\ alterRet # NoRet
    /\ alter.TableName # ""
    /\ NoOperationSerializes
    /\ Len(alterRet.errs) = 3
    /\ alterRet.errs[1] # alterRet.errs[2]

\* neither a new name nor a new data type is populated on the column
Unpopulated(p) ==
    \/ cols[p].UpdateOptions = NilUpdate
    \/ /\ cols[p].UpdateOptions # NilUpdate
       /\ cols[p].UpdateOptions.Name = ""
       /\ cols[p].UpdateOptions.DataType = ""

\* C16: a call of AlterTable.AlterColumn with a column on which neither a
\* new name nor a new data type is populated, the column without update
\* descriptor included, completes normally and leaves the operation list
\* as it was.
C16_UnpopulatedAlterDropped ==
    [][\A p \in ColIds :
          (AlterTableAlterColumn(p) /\ Unpopulated(p)) =>
              /\ panic' = ""
              /\ alter'.Operations = alter.Operations]_vars

\* the fragment C17 states for a type change of column c: both tokens are
\* taken with the length, precision and scale of c
ClaimedTypeChange(c) ==
    "ALTER COLUMN " \o ClaimedTypeToken(c) \o " TYPE "
        \o ClaimedTypeToken([c EXCEPT !.DataType = c.UpdateOptions.DataType])

MissingOfIndex ==
    IF index.name = "" THEN "index name is required"
    ELSE IF index.table = "" THEN "table name is required"
    ELSE IF index.columns = <<>>
        THEN "at least one column is required for an index"
    ELSE nil

\* C18: whenever the ToSQL of an index statement has run, a missing
\* required field gave one error and the empty string, and no missing
\* field gave no error: for Index the error is that of the first missing
\* field in the order name, table, columns; DropIndex fails exactly when
\* its name is empty; RenameIndex fails exactly when its old or its new
\* name is empty.
C18_RequiredFields ==
    /\ indexRet # NoRet =>
          /\ indexRet.err = MissingOfIndex
          /\ indexRet.err # nil => indexRet.sql = ""
    /\ dropIndexRet # NoRet =>
          /\ dropIndexRet.err # nil <=> dropIndex.name = ""
          /\ dropIndexRet.err # nil => dropIndexRet.sql = ""
    /\ renameIndexRet # NoRet =>
          /\ renameIndexRet.err # nil <=>
                (renameIndex.oldName = "" \/ renameIndex.newName = "")
          /\ renameIndexRet.err # nil => renameIndexRet.sql = ""

\* C18 witness: Index.ToSQL has reported the missing table of a named
\* index that has no column either, DropIndex.ToSQL has failed on an
\* empty name and RenameIndex.ToSQL on an empty new name.
C18_Witness ==
    /\ indexRet # NoRet
    /\ index.name # "" /\ index.table = "" /\ index.columns = <<>>
    /\ indexRet.err = "table name is required"
    /\ dropIndexRet # NoRet /\ dropIndexRet.err # nil
    /\ renameIndexRet # NoRet
    /\ renameIndex.oldName # "" /\ renameIndex.newName = ""
    /\ renameIndexRet.err # nil

\* list s was extended at its end, or left as it was
Extended(s, t) == Len(s) <= Len(t) /\ SubSeq(t, 1, Len(s)) = s

\* the clauses of CREATE INDEX in the order C19 gives them, for the index
ClaimedIndexClauses ==
       <<"CREATE">>
    \o (IF index.unique THEN <<"UNIQUE">> ELSE <<>>)
    \o <<"INDEX">>
    \o (IF index.concurrently THEN <<"CONCURRENTLY">> ELSE <<>>)
    \o <<index.name, "ON">>
    \o <<(IF index.schema # "" THEN index.schema \o "." ELSE "") \o index.table>>
    \o (IF index.method # "" THEN <<"USING " \o index.method>> ELSE <<>>)
    \o <<"(" \o Join(index.columns, ", ") \o ")">>
    \o (IF index.includeColumns # <<>>
            THEN <<"INCLUDE (" \o Join(index.includeColumns, ", ") \o ")">>
            ELSE <<>>)
    \o (IF index.where # "" THEN <<"WHERE " \o index.where>> ELSE <<>>)
    \o (IF index.withOptions # <<>>
            THEN <<"WITH (" \o Join(index.withOptions, ", ") \o ")">>
            ELSE <<>>)
    \o (IF index.tablespace # "" THEN <<"TABLESPACE " \o index.tablespace>>
                                 ELSE <<>>)

\* C19: the column list, the include list and the option list of the index
\* grow only at their end, in the order of the calls; and whenever
\* Index.ToSQL has succeeded it returned CREATE [UNIQUE] INDEX
\* [CONCURRENTLY] <name> ON [<schema>.]<table> [USING <method>] (<columns>)
\* [INCLUDE (<columns>)] [WHERE <predicate>] [WITH (<options>)]
\* [TABLESPACE <ts>], the clauses separated by one space and in that
\* order, each list in the order it was built.
C19_IndexClauseOrder ==
    /\ []((indexRet # NoRet /\ indexRet.err = nil) =>
             indexRet.sql = Join(ClaimedIndexClauses, " "))
    /\ [][/\ Extended(index.columns, index'.columns)
          /\ Extended(index.includeColumns, index'.includeColumns)
          /\ Extended(index.withOptions, index'.withOptions)]_vars

\* C19 witness: Index.ToSQL has returned a statement with every clause,
\* whose lists are not in alphabetical order.
C19_Witness ==
    /\ indexRet # NoRet
    /\ indexRet.sql =
          "CREATE UNIQUE INDEX CONCURRENTLY idx_users ON public.users USING hash (lower(a), a) INCLUDE (y, x) WHERE active WITH (fillfactor=70, fastupdate=off) TABLESPACE fast"

\* text s holds the text sub
HasSubstring(s, sub) ==
    \E i \in 1..(Len(s) - Len(sub) + 1) : SubSeq(s, i, i + Len(sub) - 1) = sub

\* C20: the index keeps the access method "btree" its constructor stored,
\* and whenever Index.ToSQL has succeeded, the statement holds a USING
\* clause if and only if the method set by the last SetMethod call is not
\* empty; without such a call it holds neither USING nor btree.
C20_UsingOnlyWhenSet ==
    /\ index.using = "btree"
    /\ (indexRet # NoRet /\ indexRet.err = nil) =>
          /\ HasSubstring(indexRet.sql, " USING ") <=> index.method # ""
          /\ index.method # "" =>
                HasSubstring(indexRet.sql, " USING " \o index.method \o " (")
          /\ index.method = "" => ~HasSubstring(indexRet.sql, "btree")

\* C20 witness: Index.ToSQL has returned a statement without USING for an
\* index on which other setters, and SetMethod never or with the empty
\* method, were called.
C20_Witness ==
    /\ indexRet # NoRet
    /\ index.method = ""
    /\ index.using = "btree"
    /\ indexRet.sql = "CREATE UNIQUE INDEX idx_users ON public.users (a) WHERE active"

\* strings.HasSuffix
HasSuffix(s, suffix) ==
    Len(s) >= Len(suffix)
    /\ SubSeq(s, Len(s) - Len(suffix) + 1, Len(s)) = suffix

\* C21: the cascade and restrict flags of a DropIndex are never both set;
\* SetCascade sets cascade and clears restrict, SetRestrict sets restrict
\* and clears cascade, every other call leaves both as they are; and a
\* statement DropIndex.ToSQL returned ends with CASCADE exactly when
\* cascade is set, with RESTRICT exactly when restrict is set, and holds
\* neither word otherwise.
C21_CascadeRestrictExclusive ==
    /\ [](~(dropIndex.cascade /\ dropIndex.restrict))
    /\ []((dropIndexRet # NoRet /\ dropIndexRet.err = nil) =>
            /\ HasSuffix(dropIndexRet.sql, " CASCADE") <=> dropIndex.cascade
            /\ HasSuffix(dropIndexRet.sql, " RESTRICT") <=> dropIndex.restrict
            /\ HasSubstring(dropIndexRet.sql, "CASCADE") => dropIndex.cascade
            /\ HasSubstring(dropIndexRet.sql, "RESTRICT") => dropIndex.restrict)
    /\ [][/\ DropIndexSetCascade =>
                dropIndex'.cascade /\ ~dropIndex'.restrict
          /\ DropIndexSetRestrict =>
                dropIndex'.restrict /\ ~dropIndex'.cascade
          /\ ~(DropIndexSetCascade \/ DropIndexSetRestrict) =>
                /\ dropIndex'.cascade = dropIndex.cascade
                /\ dropIndex'.restrict = dropIndex.restrict]_vars

\* C21 witness: DropIndex.ToSQL has returned a statement ending with
\* RESTRICT for a DropIndex on which cascade is clear.
C21_Witness ==
    /\ dropIndexRet # NoRet
    /\ dropIndex.restrict /\ ~dropIndex.cascade
    /\ dropIndexRet.sql = "DROP INDEX idx_users RESTRICT"

\* the clauses of DROP INDEX in the order C22 gives them
ClaimedDropIndexClauses ==
       <<"DROP INDEX">>
    \o (IF dropIndex.concurrently THEN <<"CONCURRENTLY">> ELSE <<>>)
    \o (IF dropIndex.ifExists THEN <<"IF EXISTS">> ELSE <<>>)
    \o <<(IF dropIndex.schema # "" THEN dropIndex.schema \o "." ELSE "")
            \o dropIndex.name>>
    \o (IF dropIndex.cascade THEN <<"CASCADE">>
        ELSE IF dropIndex.restrict THEN <<"RESTRICT">>
        ELSE <<>>)

\* C22: whenever DropIndex.ToSQL has succeeded it returned DROP INDEX
\* [CONCURRENTLY] [IF EXISTS] [<schema>.]<name> [CASCADE|RESTRICT], the
\* clauses separated by one space and in that order, whatever the order
\* of the setter calls before.
C22_DropIndexClauseOrder ==
    (dropIndexRet # NoRet /\ dropIndexRet.err = nil) =>
        dropIndexRet.sql = Join(ClaimedDropIndexClauses, " ")

\* C22 witness: DropIndex.ToSQL has returned a statement with every clause.
C22_Witness ==
    /\ dropIndexRet # NoRet
    /\ dropIndexRet.sql =
          "DROP INDEX CONCURRENTLY IF EXISTS public.idx_users CASCADE"

\* C23: the target a ReindexOperation holds has no lower-case letter; its
\* ToSQL returns an error and no text when the target is empty, or when the
\* name is empty and the target is neither SYSTEM nor DATABASE; otherwise it
\* returns REINDEX [CONCURRENTLY] <TARGET> [<name>], the name left out
\* exactly when it is empty.
C23_Reindex ==
    /\ \A i \in 1..Len(reindex.target) :
          ~Contains("abcdefghijklmnopqrstuvwxyz", Char(reindex.target, i))
    /\ reindexRet # NoRet =>
          IF \/ reindex.target = ""
             \/ reindex.name = "" /\ reindex.target \notin {"SYSTEM", "DATABASE"}
          THEN reindexRet.err # nil /\ reindexRet.sql = ""
          ELSE /\ reindexRet.err = nil
               /\ reindexRet.sql =
                     "REINDEX "
                     \o (IF reindex.concurrently THEN "CONCURRENTLY " ELSE "")
                     \o reindex.target
                     \o (IF reindex.name = "" THEN "" ELSE " " \o reindex.name)

\* a REINDEX of the system, constructed with a lower-case target and no name
C23_Witness ==
    /\ reindexRet # NoRet
    /\ reindexRet.sql = "REINDEX CONCURRENTLY SYSTEM"

\* C24: every SetCascade call leaves the cascade flag equal to its argument;
\* DropTable.ToSQL returns an error and no text when the name is empty, and
\* otherwise DROP TABLE IF EXISTS <name>, followed by CASCADE exactly when
\* the flag is set.
C24_DropTable ==
    /\ [](dropTableRet # NoRet =>
            IF dropTable.Name = ""
            THEN dropTableRet.err # nil /\ dropTableRet.sql = ""
            ELSE /\ dropTableRet.err = nil
                 /\ dropTableRet.sql =
                       "DROP TABLE IF EXISTS " \o dropTable.Name
                       \o (IF dropTable.Cascade THEN " CASCADE" ELSE ""))
    /\ [][\A cascade \in BOOLEAN :
            DropTableSetCascade(cascade) => dropTable'.Cascade = cascade]_vars

\* the statement built while the option is enabled
C24_Witness ==
    /\ dropTableRet # NoRet
    /\ dropTableRet.sql = "DROP TABLE IF EXISTS users CASCADE"

\* the two outcomes of a ToSQL that returns one error
Outcome(ret) ==
    \/ ret.err = nil /\ ret.sql # ""
    \/ ret.err # nil /\ ret.sql = ""

\* the two outcomes of a ToSQL that returns a list of errors
OutcomeOfList(ret) ==
    \/ ret.errs = <<>> /\ ret.sql # ""
    \/ ret.errs # <<>> /\ ret.sql = ""

\* C25: whatever builder a ToSQL call has returned from (Column, Table,
\* AlterTable, Index, DropIndex, RenameIndex, ReindexOperation,
\* SetIndexTablespace, DropTable), it returned either no error and a
\* non-empty text, or an error (a non-empty list of errors) and the empty
\* text.
C25_OutcomesExclusive ==
    /\ \A p \in ColIds : colRet[p] # NoRet => Outcome(colRet[p])
    /\ tableRet # NoRet => OutcomeOfList(tableRet)
    /\ alterRet # NoRet => OutcomeOfList(alterRet)
    /\ indexRet # NoRet => Outcome(indexRet)
    /\ dropIndexRet # NoRet => Outcome(dropIndexRet)
    /\ renameIndexRet # NoRet => Outcome(renameIndexRet)
    /\ reindexRet # NoRet => Outcome(reindexRet)
    /\ setTablespaceRet # NoRet => Outcome(setTablespaceRet)
    /\ dropTableRet # NoRet => Outcome(dropTableRet)

\* Table.ToSQL has returned for a table of one column that serializes and
\* one that does not: the error of the latter, and no text
C25_Witness ==
    /\ tableRet # NoRet
    /\ Len(table.Columns) = 2
    /\ Len(tableRet.errs) = 1
    /\ tableRet.sql = ""

\* the operations of the AlterTable that name their column in the statement
\* AlterTable.ToSQL returns: the drops, the renames, and the adds of columns
\* that pass validation
NamingOperations ==
    {i \in 1..Len(alter.Operations) :
        \/ alter.Operations[i].Operation \in {DropColumnOp, RenameColumnOp}
        \/ /\ alter.Operations[i].Operation = AddColumnOp
           /\ Validate(cols[alter.Operations[i].Column]) = nil}

\* C26: whenever Column.ToSQL has returned for a column whose name is
\* empty, it returned no text; and whenever AlterTable.ToSQL has returned a
\* statement, the column of every ADD, DROP and RENAME fragment in it has a
\* non-empty name.
C26_NameRequired ==
    /\ \A p \in ColIds :
          (colRet[p] # NoRet /\ cols[p].Name = "") => colRet[p].sql = ""
    /\ (alterRet # NoRet /\ alterRet.sql # "") =>
          \A i \in NamingOperations :
              cols[alter.Operations[i].Column].Name # ""

\* C27: a call of AlterTable.AlterColumn leaves the operation list as it
\* was or appends one operation to it; with a column on which both a new
\* name and a new data type are populated it appends one RENAME operation;
\* it appends a type change only when the new name is empty and the new
\* data type is not.  And whenever AlterTable.ToSQL has returned a
\* statement for operations that are all renames, the statement holds no
\* ALTER COLUMN fragment.
C27_OneOperationPerAlter ==
    /\ []((alterRet # NoRet /\ alterRet.sql # ""
             /\ \A i \in 1..Len(alter.Operations) :
                   alter.Operations[i].Operation = RenameColumnOp)
           => ~HasSubstring(alterRet.sql, "ALTER COLUMN"))
    /\ [][\A p \in ColIds :
            AlterTableAlterColumn(p) =>
                LET u      == cols[p].UpdateOptions
                    rename == [Operation |-> RenameColumnOp, Column |-> p]
                    change == [Operation |-> AlterColumnTypeOp, Column |-> p]
                IN  /\ alter'.Operations \in
                          {alter.Operations, Append(alter.Operations, rename),
                           Append(alter.Operations, change)}
                    /\ (u # NilUpdate /\ u.Name # "" /\ u.DataType # ""
                          /\ Len(alter.Operations) < MaxOps)
                       => alter'.Operations = Append(alter.Operations, rename)
                    /\ alter'.Operations = Append(alter.Operations, change)
                       => (u # NilUpdate /\ u.Name = "" /\ u.DataType # "")]_vars

\* AlterTable.ToSQL has returned the rename of a column on which a new name
\* and a new data type are populated
C27_Witness ==
    /\ alterRet # NoRet
    /\ alterRet.sql = "ALTER TABLE users RENAME COLUMN id TO renamed"
    /\ cols["c1"].UpdateOptions = [Name |-> "renamed", DataType |-> IntegerType]

\* C28: whenever AlterTable.ToSQL has returned a statement, every rename in
\* it is of a column whose update descriptor holds a non-empty new name (so
\* that no fragment ends at TO), and every type change in it is of a column
\* whose descriptor holds no new name and a new data type, the descriptors
\* being those of the columns when ToSQL ran.
C28_FragmentsMatchDescriptor ==
    (alterRet # NoRet /\ alterRet.sql # "") =>
        /\ \A i \in 1..Len(alter.Operations) :
              LET u == cols[alter.Operations[i].Column].UpdateOptions
              IN  /\ alter.Operations[i].Operation = RenameColumnOp
                        => u.Name # ""
                  /\ alter.Operations[i].Operation = AlterColumnTypeOp
                        => (u.Name = "" /\ u.DataType # "")
        /\ ~HasSuffix(alterRet.sql, " TO ")
        /\ ~HasSubstring(alterRet.sql, " TO ,")

\* the texts of the predefined DefaultValue constants
PredefinedDefaults ==
    {"NULL", "TRUE", "FALSE", "CURRENT_TIMESTAMP", "CURRENT_DATE",
     "CURRENT_TIME", "LOCALTIME", "LOCALTIMESTAMP"}

\* C29: whenever Column.ToSQL has returned a text for a valid column whose
\* default is the text of a predefined DefaultValue constant, the text holds
\* DEFAULT followed by the constant's text, without quotes.
C29_ConstantsUnquoted ==
    \A p \in ColIds :
        (colRet[p] # NoRet /\ colRet[p].err = nil
            /\ cols[p].Default \in PredefinedDefaults) =>
            HasSubstring(colRet[p].sql, " DEFAULT " \o cols[p].Default)

\* C30: no ToSQL of a Table or of an AlterTable aborts, whatever was added
\* before (a nil column included), and no operation of the AlterTable holds
\* a nil column.
C30_TableLevelToSQLReturns ==
    /\ panic \notin {"Table.ToSQL", "AlterTable.ToSQL"}
    /\ \A i \in 1..Len(alter.Operations) :
          alter.Operations[i].Column # NilCol

=============================================================================
